---- MODULE Spec2Model ----
(***************************************************************************)
(* A model of the sandboxed patch engine of ai-file-edit:                  *)
(*   validatePath, applyFileEdits, applyReversePatch (utils/fileUtils.ts)  *)
(*   and FileEditTool.handleToolUse (index.ts).                            *)
(* Text is a sequence of characters; a character is a one-token string.    *)
(***************************************************************************)
EXTENDS Integers, Sequences, FiniteSets, TLC

\* ------------------------------------------------------------------------
\* Characters
\* ------------------------------------------------------------------------
CR == "CR"
LF == "LF"
SP == "SP"
DOLLAR == "$"
AMP == "&"
BACKQUOTE == "BQ"
QUOTE == "SQ"
SLASH == "/"
DOT == "."
TILDE == "~"

\* ------------------------------------------------------------------------
\* Bounds of the model
\* ------------------------------------------------------------------------
MaxFileLen == 3
MaxTextLen == 2
MaxSeqFileLen == 2
MaxEdits == 2
MaxEditChars == 2
MaxDepth == 2
MaxLinkHops == 3
MaxRounds == 2

\* ------------------------------------------------------------------------
\* JavaScript string primitives
\* ------------------------------------------------------------------------
StrUpTo(alphabet, n) == UNION {[1..k -> alphabet] : k \in 0..n}

\* "const v = ...;" followed by the rest F of the block: v is computed once
With(v, F(_)) == F(v)

Max(a, b) == IF a >= b THEN a ELSE b
Min(a, b) == IF a <= b THEN a ELSE b

\* String.prototype.startsWith
StartsWith(s, p) == Len(p) <= Len(s) /\ SubSeq(s, 1, Len(p)) = p

EndsWith(s, p) == Len(p) <= Len(s) /\ SubSeq(s, Len(s) - Len(p) + 1, Len(s)) = p

\* String.prototype.indexOf, 1-based, 0 when absent
IndexOf(s, p) ==
  LET hits == {i \in 1..(Len(s) - Len(p) + 1) : SubSeq(s, i, i + Len(p) - 1) = p}
  IN IF hits = {} THEN 0 ELSE CHOOSE i \in hits : \A j \in hits : i <= j

\* String.prototype.includes
Includes(s, p) == IndexOf(s, p) # 0

RECURSIVE Concat(_)
\* Array.prototype.join('') of a sequence of strings
Concat(ss) == IF ss = <<>> THEN <<>> ELSE Head(ss) \o Concat(Tail(ss))

RECURSIVE ReplaceAll(_, _, _)
\* String.prototype.replace(/pat/g, rep) for a literal, non-empty pat
ReplaceAll(s, pat, rep) ==
  IF Len(s) < Len(pat) THEN s
  ELSE IF SubSeq(s, 1, Len(pat)) = pat
       THEN rep \o ReplaceAll(SubSeq(s, Len(pat) + 1, Len(s)), pat, rep)
       ELSE <<Head(s)>> \o ReplaceAll(Tail(s), pat, rep)

RECURSIVE Split(_, _)
\* String.prototype.split(sep) for a one-character separator
Split(s, sep) ==
  LET i == IndexOf(s, <<sep>>)
  IN IF i = 0 THEN <<s>>
     ELSE <<SubSeq(s, 1, i - 1)>> \o Split(SubSeq(s, i + 1, Len(s)), sep)

RECURSIVE Join(_, _)
\* Array.prototype.join(sep)
Join(ss, sep) ==
  IF ss = <<>> THEN <<>>
  ELSE IF Len(ss) = 1 THEN ss[1]
  ELSE ss[1] \o sep \o Join(Tail(ss), sep)

\* the characters matched by \s
IsWs(c) == c \in {SP, CR, LF}

\* line.match(/^\s*/)[0]
LeadingWs(s) ==
  LET n == IF \A i \in 1..Len(s) : IsWs(s[i]) THEN Len(s)
           ELSE (CHOOSE i \in 1..Len(s) : ~IsWs(s[i]) /\ \A j \in 1..(i-1) : IsWs(s[j])) - 1
  IN SubSeq(s, 1, n)

\* String.prototype.trimStart
TrimStart(s) == SubSeq(s, Len(LeadingWs(s)) + 1, Len(s))

\* String.prototype.trimEnd
TrimEnd(s) ==
  LET n == IF \A i \in 1..Len(s) : IsWs(s[i]) THEN 0
           ELSE CHOOSE i \in 1..Len(s) : ~IsWs(s[i]) /\ \A j \in (i+1)..Len(s) : IsWs(s[j])
  IN SubSeq(s, 1, n)

\* String.prototype.trim
Trim(s) == TrimEnd(TrimStart(s))

\* ' '.repeat(n)
Spaces(n) == [i \in 1..n |-> SP]

RECURSIVE ExpandReplacement(_, _, _, _)
\* The replacement-pattern expansion of String.prototype.replace(string, string):
\* $$ is a dollar sign, $& the match, dollar-backquote the text before it, dollar-quote the text after it.
ExpandReplacement(rep, matched, before, after) ==
  IF rep = <<>> THEN <<>>
  ELSE IF Len(rep) >= 2 /\ rep[1] = DOLLAR /\ rep[2] \in {DOLLAR, AMP, BACKQUOTE, QUOTE}
       THEN (CASE rep[2] = DOLLAR -> <<DOLLAR>>
               [] rep[2] = AMP -> matched
               [] rep[2] = BACKQUOTE -> before
               [] rep[2] = QUOTE -> after)
            \o ExpandReplacement(SubSeq(rep, 3, Len(rep)), matched, before, after)
       ELSE <<Head(rep)>> \o ExpandReplacement(Tail(rep), matched, before, after)

\* String.prototype.replace(pat, rep) for a string pat that occurs in s
ReplaceFirst(s, pat, rep) ==
  LET i == IndexOf(s, pat)
      before == SubSeq(s, 1, i - 1)
      after == SubSeq(s, i + Len(pat), Len(s))
  IN IF i = 0 THEN s
     ELSE before \o ExpandReplacement(rep, pat, before, after) \o after

\* ------------------------------------------------------------------------
\* Line ending utilities
\* ------------------------------------------------------------------------
Platforms == {"linux", "win32"}

getPlatformLineEnding(platform) == IF platform = "win32" THEN <<CR, LF>> ELSE <<LF>>

detectLineEnding(text, platform) ==
  IF Includes(text, <<CR, LF>>) THEN <<CR, LF>>
  ELSE IF Includes(text, <<LF>>) THEN <<LF>>
  ELSE getPlatformLineEnding(platform)

normalizeLineEndings(text) == ReplaceAll(text, <<CR, LF>>, <<LF>>)

applyPlatformLineEndings(text, targetLineEnding) ==
  LET normalized == normalizeLineEndings(text)
  IN IF targetLineEnding = <<LF>> THEN normalized
     ELSE ReplaceAll(normalized, <<LF>>, targetLineEnding)

\* ------------------------------------------------------------------------
\* The edit engine: the loop body of applyFileEdits
\* ------------------------------------------------------------------------
\* oldLines.every((oldLine, j) => oldLine.trim() === contentLine.trim()) for the
\* window of contentLines that starts at index i (1-based)
IsMatch(contentLines, oldLines, i) ==
  \A j \in 1..Len(oldLines) : Trim(oldLines[j]) = Trim(contentLines[i + j - 1])

\* The replacement lines of a whitespace-tolerant match at window i
NewLines(contentLines, oldLines, normalizedNew, i) ==
  LET originalIndent == LeadingWs(contentLines[i])
      lines == Split(normalizedNew, LF)
  IN [j \in 1..Len(lines) |->
        IF j = 1 THEN originalIndent \o TrimStart(lines[j])
        ELSE LET oldIndent == IF j <= Len(oldLines) THEN LeadingWs(oldLines[j]) ELSE <<>>
                 newIndent == LeadingWs(lines[j])
             IN IF oldIndent # <<>> /\ newIndent # <<>>
                THEN originalIndent
                       \o Spaces(Max(0, Len(newIndent) - Len(oldIndent)))
                       \o TrimStart(lines[j])
                ELSE lines[j]]

\* contentLines.splice(i, oldLines.length, ...newLines)
Splice(contentLines, i, n, newLines) ==
  SubSeq(contentLines, 1, i - 1) \o newLines \o SubSeq(contentLines, i + n, Len(contentLines))

\* The line-by-line matching with the last window that matches
LineMatchLastWindow(modifiedContent, normalizedOld, normalizedNew) ==
  LET oldLines == Split(normalizedOld, LF)
      contentLines == Split(modifiedContent, LF)
      wins == {i \in 1..(Len(contentLines) - Len(oldLines) + 1) :
                 IsMatch(contentLines, oldLines, i)}
  IN IF wins = {} THEN [matchFound |-> FALSE, content |-> modifiedContent]
     ELSE LET i == CHOOSE w \in wins : \A v \in wins : w >= v
          IN [matchFound |-> TRUE,
              content |-> Join(Splice(contentLines, i, Len(oldLines),
                                      NewLines(contentLines, oldLines, normalizedNew, i)),
                               <<LF>>)]

\* The line-by-line matching of one edit: the first window that matches
LineMatch(modifiedContent, normalizedOld, normalizedNew) ==
  LET oldLines == Split(normalizedOld, LF)
      contentLines == Split(modifiedContent, LF)
      wins == {i \in 1..(Len(contentLines) - Len(oldLines) + 1) :
                 IsMatch(contentLines, oldLines, i)}
  IN IF wins = {} THEN [matchFound |-> FALSE, content |-> modifiedContent]
     ELSE LET i == CHOOSE w \in wins : \A v \in wins : w <= v
          IN [matchFound |-> TRUE,
              content |-> Join(Splice(contentLines, i, Len(oldLines),
                                      NewLines(contentLines, oldLines, normalizedNew, i)),
                               <<LF>>)]

\* One iteration of "for (const edit of edits)"
ApplyEdit(modifiedContent, edit) ==
  LET normalizedOld == normalizeLineEndings(edit.oldText)
      normalizedNew == normalizeLineEndings(edit.newText)
  IN IF Includes(modifiedContent, normalizedOld)
     THEN [matchFound |-> TRUE,
           content |-> ReplaceFirst(modifiedContent, normalizedOld, normalizedNew)]
     ELSE LineMatch(modifiedContent, normalizedOld, normalizedNew)

RECURSIVE ApplyEditsBackwards(_, _)
\* A slip of the loop: the edits are taken from the last to the first
ApplyEditsBackwards(modifiedContent, edits) ==
  IF edits = <<>> THEN [matchFound |-> TRUE, content |-> modifiedContent, failed |-> <<>>]
  ELSE LET r == ApplyEdit(modifiedContent, edits[Len(edits)])
       IN IF r.matchFound THEN ApplyEditsBackwards(r.content, SubSeq(edits, 1, Len(edits) - 1))
          ELSE [matchFound |-> FALSE, content |-> modifiedContent,
                failed |-> edits[Len(edits)].oldText]

RECURSIVE ApplyEdits(_, _)
\* The loop over the edits: stops at the first edit that is not found
ApplyEdits(modifiedContent, edits) ==
  IF edits = <<>> THEN [matchFound |-> TRUE, content |-> modifiedContent, failed |-> <<>>]
  ELSE LET r == ApplyEdit(modifiedContent, Head(edits))
       IN IF r.matchFound THEN ApplyEdits(r.content, Tail(edits))
          ELSE [matchFound |-> FALSE, content |-> modifiedContent,
                failed |-> Head(edits).oldText]


\* ------------------------------------------------------------------------
\* Paths.  A path string is a sequence of characters; a resolved path is the
\* sequence of its component names (the root is the empty sequence).
\* ------------------------------------------------------------------------
HomeDir == <<<<"h">>>>

\* process.cwd()
Cwd == <<<<"w">>>>

\* The string of a resolved path: "/" + names.join("/")
PathStr(comps) == IF comps = <<>> THEN <<SLASH>> ELSE Concat([i \in 1..Len(comps) |-> <<SLASH>> \o comps[i]])

\* path.isAbsolute
IsAbsolute(p) == p # <<>> /\ p[1] = SLASH

RECURSIVE ResolveSegs(_, _)
\* The segment walk of path.resolve / path.normalize: "." and empty segments are
\* dropped, ".." removes the last name (never above the root)
ResolveSegs(comps, segs) ==
  IF segs = <<>> THEN comps
  ELSE LET g == Head(segs)
       IN IF g = <<>> \/ g = <<DOT>> THEN ResolveSegs(comps, Tail(segs))
          ELSE IF g = <<DOT, DOT>>
               THEN ResolveSegs(IF comps = <<>> THEN comps ELSE SubSeq(comps, 1, Len(comps) - 1),
                                Tail(segs))
               ELSE ResolveSegs(Append(comps, g), Tail(segs))

\* path.resolve(p) for an absolute path string
ResolveAbs(p) == ResolveSegs(<<>>, Split(p, SLASH))

\* path.resolve(from, to), with process.cwd() = cwd when both are relative
PathResolve(cwd, from, to) ==
  IF IsAbsolute(to) THEN ResolveAbs(to)
  ELSE IF IsAbsolute(from) THEN ResolveSegs(ResolveAbs(from), Split(to, SLASH))
  ELSE ResolveSegs(ResolveSegs(cwd, Split(from, SLASH)), Split(to, SLASH))

\* path.normalize of an absolute path string (the string of its resolved form)
normalizePath(p) == PathStr(ResolveAbs(p))

\* expandHome: "~" and "~/x" are joined to os.homedir()
expandHome(filepath) ==
  IF filepath = <<TILDE>> \/ StartsWith(filepath, <<TILDE, SLASH>>)
  THEN PathStr(ResolveSegs(HomeDir, Split(Tail(filepath), SLASH)))
  ELSE filepath

\* path.dirname of a resolved path
Dirname(comps) == IF comps = <<>> THEN comps ELSE SubSeq(comps, 1, Len(comps) - 1)

\* ------------------------------------------------------------------------
\* The filesystem: a function from resolved paths to nodes
\* ------------------------------------------------------------------------
NoNode == [kind |-> "none", data |-> <<>>, target |-> <<>>]
DirNode == [kind |-> "dir", data |-> <<>>, target |-> <<>>]
FileNode(d) == [kind |-> "file", data |-> d, target |-> <<>>]
LinkNode(t) == [kind |-> "link", data |-> <<>>, target |-> t]
\* A regular file its owner may write and not read (mode 0200)
WriteOnlyNode(d) == [kind |-> "wfile", data |-> d, target |-> <<>>]

Node(fsv, comps) ==
  IF comps = <<>> THEN DirNode
  ELSE IF comps \in DOMAIN fsv THEN fsv[comps] ELSE NoNode

RECURSIVE Walk(_, _, _, _, _)
\* Resolution of a path by the operating system: cur is the real directory reached
\* so far, rest the names still to walk; a symbolic link met on the way is replaced
\* by its target.  followLast = FALSE leaves a link in the last position alone (lstat).
Walk(fsv, cur, rest, followLast, hops) ==
  IF rest = <<>> THEN [ok |-> TRUE, path |-> cur]
  ELSE LET next == Append(cur, Head(rest))
           n == Node(fsv, next)
       IN CASE n.kind = "none" ->
                 IF Len(rest) = 1 THEN [ok |-> FALSE, path |-> next]
                 ELSE [ok |-> FALSE, path |-> <<>>]
            [] n.kind = "link" ->
                 IF Len(rest) = 1 /\ ~followLast THEN [ok |-> TRUE, path |-> next]
                 ELSE IF hops = 0 THEN [ok |-> FALSE, path |-> <<>>]
                 ELSE Walk(fsv, <<>>, n.target \o Tail(rest), followLast, hops - 1)
            [] n.kind \in {"file", "wfile"} ->
                 IF Len(rest) = 1 THEN [ok |-> TRUE, path |-> next]
                 ELSE [ok |-> FALSE, path |-> <<>>]
            [] n.kind = "dir" -> Walk(fsv, next, Tail(rest), followLast, hops)

\* fs.realpath: fails when a component is missing
realpath(fsv, comps) == Walk(fsv, <<>>, comps, TRUE, MaxLinkHops)

\* fs.lstat: fails when the path is missing; the last link is not followed
lstat(fsv, comps) ==
  LET w == Walk(fsv, <<>>, comps, FALSE, MaxLinkHops)
  IN [ok |-> w.ok, isSymbolicLink |-> w.ok /\ Node(fsv, w.path).kind = "link"]

\* fs.readFile: the data of the regular file the path leads to; it fails on a
\* missing path (ENOENT), a directory (EISDIR) and a file that may not be read (EACCES)
readFile(fsv, comps) ==
  LET w == Walk(fsv, <<>>, comps, TRUE, MaxLinkHops)
  IN IF w.ok /\ Node(fsv, w.path).kind = "file"
     THEN [ok |-> TRUE, data |-> Node(fsv, w.path).data]
     ELSE [ok |-> FALSE, data |-> <<>>]

\* fs.writeFile: replaces the data of the file the path leads to (its mode stays),
\* or creates the file in an existing directory; fails on a directory or a missing
\* parent
writeFile(fsv, comps, d) ==
  LET w == Walk(fsv, <<>>, comps, TRUE, MaxLinkHops)
      there == w.path # <<>> /\ Node(fsv, w.path).kind \in {"file", "wfile", "none"}
      parentOk == w.path # <<>> /\ Node(fsv, Dirname(w.path)).kind = "dir"
  IN IF there /\ parentOk
     THEN [ok |-> TRUE, fs |-> [q \in DOMAIN fsv \cup {w.path} |->
                                  IF q # w.path THEN fsv[q]
                                  ELSE IF Node(fsv, q).kind = "wfile" THEN WriteOnlyNode(d)
                                  ELSE FileNode(d)]]
     ELSE [ok |-> FALSE, fs |-> fsv]


\* ------------------------------------------------------------------------
\* validatePath
\* ------------------------------------------------------------------------
\* const absolute = path.isAbsolute(expandedPath) ? path.resolve(expandedPath)
\*                                                : path.resolve(expandedParentDir, expandedPath)
Absolute(parentDir, requestedPath) ==
  PathResolve(Cwd, expandHome(parentDir), expandHome(requestedPath))

\* allowedDirectories.map(dir => normalizePath(path.resolve(expandHome(dir))))
NormalizedAllowed(allowedDirs) ==
  [i \in 1..Len(allowedDirs) |->
     normalizePath(PathStr(PathResolve(Cwd, <<>>, expandHome(allowedDirs[i]))))]

\* normalizedAllowed.some(dir => normalizedRequested.startsWith(dir))
IsAllowed(normalizedAllowed, normalizedRequested) ==
  \E i \in 1..Len(normalizedAllowed) : StartsWith(normalizedRequested, normalizedAllowed[i])

Ok(comps) == [status |-> "ok", path |-> comps]
AccessDenied == [status |-> "AccessDenied", path |-> <<>>]
ParentMissing == [status |-> "ParentMissing", path |-> <<>>]

\* The catch block of validatePath: the path cannot be lstat'ed (or its link cannot
\* be resolved).  The "Access denied - parent directory ..." error is thrown inside
\* the inner try, whose catch replaces it by "Parent directory does not exist".
VerifyParent(fsv, absolute, normalizedAllowed) ==
  LET realParentPath == realpath(fsv, Dirname(absolute))
  IN IF realParentPath.ok /\ IsAllowed(normalizedAllowed, normalizePath(PathStr(realParentPath.path)))
     THEN Ok(absolute)
     ELSE ParentMissing

\* A slip of the symlink branch: the real target of a link is checked against the
\* allowed directories like the path itself
validatePathTargetChecked(fsv, parentDir, requestedPath, allowedDirs) ==
  With(Absolute(parentDir, requestedPath), LAMBDA absolute :
  With(normalizePath(PathStr(absolute)), LAMBDA normalizedRequested :
  With(NormalizedAllowed(allowedDirs), LAMBDA normalizedAllowed :
  With(lstat(fsv, absolute), LAMBDA stats :
  With(realpath(fsv, absolute), LAMBDA realPath :
    IF ~IsAllowed(normalizedAllowed, normalizedRequested) THEN AccessDenied
    ELSE IF stats.ok /\ stats.isSymbolicLink /\ realPath.ok
         THEN IF IsAllowed(normalizedAllowed, normalizePath(PathStr(realPath.path)))
              THEN Ok(realPath.path)
              ELSE AccessDenied
    ELSE IF stats.ok /\ ~stats.isSymbolicLink THEN Ok(absolute)
    ELSE VerifyParent(fsv, absolute, normalizedAllowed))))))

\* validatePath(parentDir, requestedPath, allowedDirectories): the path it resolves
\* to, or the error it rejects with
validatePath(fsv, parentDir, requestedPath, allowedDirs) ==
  With(Absolute(parentDir, requestedPath), LAMBDA absolute :
  With(normalizePath(PathStr(absolute)), LAMBDA normalizedRequested :
  With(NormalizedAllowed(allowedDirs), LAMBDA normalizedAllowed :
  With(lstat(fsv, absolute), LAMBDA stats :
  With(realpath(fsv, absolute), LAMBDA realPath :
    IF ~IsAllowed(normalizedAllowed, normalizedRequested) THEN AccessDenied
    ELSE IF stats.ok /\ stats.isSymbolicLink /\ realPath.ok THEN Ok(realPath.path)
    ELSE IF stats.ok /\ ~stats.isSymbolicLink THEN Ok(absolute)
    ELSE VerifyParent(fsv, absolute, normalizedAllowed))))))

\* ------------------------------------------------------------------------
\* The unified diffs of the 'diff' package, as fileUtils.ts uses them.
\* A diff text is the record of what parsePatch reads from it: its hunks, each
\* with its ranges and its lines; a hunk line is its first character (op) and
\* the rest (text).  The empty string is the diff text with empty = TRUE.
\* ------------------------------------------------------------------------
ContextSize == 4

HunkLine(o, t) == [op |-> o, text |-> t]
NoNewlineMarker == HunkLine("\\", <<>>)

EmptyText == [empty |-> TRUE, oldHeader |-> "", newHeader |-> "", hunks |-> <<>>]

\* The line tokens diffLines compares: every line with its line break, the last
\* one without when the text does not end with a line break
Tokenize(text) ==
  LET parts == Split(text, LF)
  IN [i \in 1..(IF parts[Len(parts)] = <<>> THEN Len(parts) - 1 ELSE Len(parts)) |->
        IF i < Len(parts) THEN Append(parts[i], LF) ELSE parts[i]]

\* Length of the longest common prefix of two token sequences
CommonPrefix(a, b) ==
  LET ks == {k \in 0..Min(Len(a), Len(b)) : SubSeq(a, 1, k) = SubSeq(b, 1, k)}
  IN CHOOSE k \in ks : \A j \in ks : j <= k

\* Length of the longest common suffix of two token sequences that does not
\* overlap a common prefix of length pre
CommonSuffix(a, b, pre) ==
  LET ks == {k \in 0..(Min(Len(a), Len(b)) - pre) :
               SubSeq(a, Len(a) - k + 1, Len(a)) = SubSeq(b, Len(b) - k + 1, Len(b))}
  IN CHOOSE k \in ks : \A j \in ks : j <= k

RECURSIVE MarkLines(_)
\* Removes the line break of every hunk line and puts the no-newline marker after
\* a line that has none
MarkLines(ls) ==
  IF ls = <<>> THEN <<>>
  ELSE LET l == Head(ls)
       IN IF EndsWith(l.text, <<LF>>)
          THEN <<HunkLine(l.op, SubSeq(l.text, 1, Len(l.text) - 1))>> \o MarkLines(Tail(ls))
          ELSE <<l, NoNewlineMarker>> \o MarkLines(Tail(ls))

\* createTwoFilesPatch(file, file, a, b, 'original', 'modified') read back by
\* parsePatch: no hunk when the texts are equal, else one hunk that removes the
\* old lines between the common prefix and suffix and adds the new ones, with at
\* most ContextSize lines of context on each side
createTwoFilesPatch(a, b) ==
  With(Tokenize(a), LAMBDA ta :
  With(Tokenize(b), LAMBDA tb :
  With(CommonPrefix(ta, tb), LAMBDA pre :
  With(CommonSuffix(ta, tb, pre), LAMBDA suf :
  With(Min(pre, ContextSize), LAMBDA before :
  With(Min(suf, ContextSize), LAMBDA after :
  With(SubSeq(ta, pre + 1, Len(ta) - suf), LAMBDA removed :
  With(SubSeq(tb, pre + 1, Len(tb) - suf), LAMBDA added :
    [empty |-> FALSE, oldHeader |-> "original", newHeader |-> "modified",
     hunks |-> IF ta = tb THEN <<>>
               ELSE <<[oldStart |-> pre - before + 1,
                       oldLines |-> before + Len(removed) + after,
                       newStart |-> pre - before + 1,
                       newLines |-> before + Len(added) + after,
                       lines |-> MarkLines(
                         [i \in 1..before |-> HunkLine(" ", ta[pre - before + i])]
                           \o [i \in 1..Len(removed) |-> HunkLine("-", removed[i])]
                           \o [i \in 1..Len(added) |-> HunkLine("+", added[i])]
                           \o [i \in 1..after |-> HunkLine(" ", ta[Len(ta) - suf + i])])]>>]))))))))

\* parsePatch then reversePatch then formatPatch: headers and ranges swapped,
\* '+' and '-' exchanged line by line
reversePatch(d) ==
  [empty |-> FALSE, oldHeader |-> d.newHeader, newHeader |-> d.oldHeader,
   hunks |-> [h \in 1..Len(d.hunks) |->
     [oldStart |-> d.hunks[h].newStart, oldLines |-> d.hunks[h].newLines,
      newStart |-> d.hunks[h].oldStart, newLines |-> d.hunks[h].oldLines,
      lines |-> [i \in 1..Len(d.hunks[h].lines) |->
         LET l == d.hunks[h].lines[i]
         IN IF l.op = "-" THEN HunkLine("+", l.text)
            ELSE IF l.op = "+" THEN HunkLine("-", l.text)
            ELSE l]]]]

createUnifiedDiff(originalContent, newContent) ==
  createTwoFilesPatch(normalizeLineEndings(originalContent), normalizeLineEndings(newContent))

createReverseUnifiedDiff(originalContent, newContent) ==
  reversePatch(createUnifiedDiff(originalContent, newContent))


\* --- applyPatch of the 'diff' package (version 7) ---

HunkLines(d) == IF d.hunks = <<>> THEN <<>> ELSE d.hunks[Len(d.hunks)].lines

\* hasOnlyWinLineEndings(source)
hasOnlyWinLineEndings(source) ==
  /\ Includes(source, <<CR, LF>>)
  /\ ~StartsWith(source, <<LF>>)
  /\ \A i \in 2..Len(source) : source[i] = LF => source[i - 1] = CR

\* hasOnlyUnixLineEndings(source)
hasOnlyUnixLineEndings(source) == ~Includes(source, <<CR, LF>>) /\ Includes(source, <<LF>>)

\* isUnix(patch): no hunk line ends with a carriage return
isUnix(d) ==
  \A h \in 1..Len(d.hunks) : \A i \in 1..Len(d.hunks[h].lines) :
     LET l == d.hunks[h].lines[i] IN l.op = "\\" \/ ~EndsWith(l.text, <<CR>>)

\* isWin(patch): some hunk line ends with a carriage return and every line that is
\* not followed by the no-newline marker does
isWin(d) ==
  /\ \E h \in 1..Len(d.hunks) : \E i \in 1..Len(d.hunks[h].lines) :
        EndsWith(d.hunks[h].lines[i].text, <<CR>>)
  /\ \A h \in 1..Len(d.hunks) : \A i \in 1..Len(d.hunks[h].lines) :
        LET ls == d.hunks[h].lines
        IN \/ ls[i].op = "\\"
           \/ EndsWith(ls[i].text, <<CR>>)
           \/ (i < Len(ls) /\ ls[i + 1].op = "\\")

\* unixToWin(patch)
unixToWin(d) ==
  [d EXCEPT !.hunks = [h \in 1..Len(d.hunks) |->
     [d.hunks[h] EXCEPT !.lines = [i \in 1..Len(d.hunks[h].lines) |->
        LET ls == d.hunks[h].lines
        IN IF \/ ls[i].op = "\\"
              \/ EndsWith(ls[i].text, <<CR>>)
              \/ (i < Len(ls) /\ ls[i + 1].op = "\\")
           THEN ls[i]
           ELSE HunkLine(ls[i].op, Append(ls[i].text, CR))]]]]

\* winToUnix(patch)
winToUnix(d) ==
  [d EXCEPT !.hunks = [h \in 1..Len(d.hunks) |->
     [d.hunks[h] EXCEPT !.lines = [i \in 1..Len(d.hunks[h].lines) |->
        LET l == d.hunks[h].lines[i]
        IN IF EndsWith(l.text, <<CR>>)
           THEN HunkLine(l.op, SubSeq(l.text, 1, Len(l.text) - 1))
           ELSE l]]]]

\* The line-ending conversion applyPatch does before it applies a patch
autoConvertLineEndings(source, d) ==
  IF hasOnlyWinLineEndings(source) /\ isUnix(d) THEN unixToWin(d)
  ELSE IF hasOnlyUnixLineEndings(source) /\ isWin(d) THEN winToUnix(d)
  ELSE d

\* A no-newline marker follows a '+' line / a '-' line of the last hunk
removeEOFNL(d) ==
  \E i \in 2..Len(HunkLines(d)) : HunkLines(d)[i].op = "\\" /\ HunkLines(d)[i - 1].op = "+"

addEOFNL(d) ==
  \E i \in 2..Len(HunkLines(d)) : HunkLines(d)[i].op = "\\" /\ HunkLines(d)[i - 1].op = "-"

\* The lines of the source after the end-of-file newline step of applyPatch
\* (ok = FALSE: the patch asks for a newline change the source does not allow)
EofLines(source, d) ==
  LET lines == Split(source, LF)
      last == lines[Len(lines)]
  IN IF removeEOFNL(d)
     THEN IF addEOFNL(d) THEN [ok |-> last # <<>>, lines |-> lines]
          ELSE IF last = <<>> THEN [ok |-> TRUE, lines |-> SubSeq(lines, 1, Len(lines) - 1)]
          ELSE [ok |-> FALSE, lines |-> lines]
     ELSE IF addEOFNL(d)
          THEN IF last # <<>> THEN [ok |-> TRUE, lines |-> Append(lines, <<>>)]
               ELSE [ok |-> FALSE, lines |-> lines]
          ELSE [ok |-> TRUE, lines |-> lines]

\* The old side and the new side of a hunk
SelectOps(ls, ops) == SelectSeq(ls, LAMBDA l : l.op \in ops)
OldSide(hunk) == [i \in 1..Len(SelectOps(hunk.lines, {" ", "-"})) |->
                    SelectOps(hunk.lines, {" ", "-"})[i].text]
NewSide(hunk) == [i \in 1..Len(SelectOps(hunk.lines, {" ", "+"})) |->
                    SelectOps(hunk.lines, {" ", "+"})[i].text]

\* applyHunk without fuzz: the hunk fits at toPos (0-based) when its old side is
\* what the source holds there
HunkFits(lines, hunk, toPos) ==
  LET old == OldSide(hunk)
  IN /\ toPos >= 0
     /\ toPos + Len(old) <= Len(lines)
     /\ SubSeq(lines, toPos + 1, toPos + Len(old)) = old

\* The position the hunk is applied at: the expected one, else the nearest one in
\* 0..maxLine that fits, looking forward before backward (distanceIterator)
FitPos(lines, hunk) ==
  LET start == hunk.oldStart - 1
      maxLine == Len(lines) - hunk.oldLines
      Dist(q) == IF q >= start THEN 2 * (q - start) ELSE 2 * (start - q) + 1
  IN With({q \in ({start} \cup 0..maxLine) : HunkFits(lines, hunk, q)}, LAMBDA cands :
       IF cands = {} THEN -1
       ELSE CHOOSE q \in cands : \A r \in cands : Dist(q) <= Dist(r))

\* applyPatch(source, patch) for a patch of at most one hunk
applyPatch(source, patch) ==
  With(autoConvertLineEndings(source, patch), LAMBDA d :
    IF d.hunks = <<>> THEN [ok |-> TRUE, text |-> source]
    ELSE With(EofLines(source, d), LAMBDA e :
         With(d.hunks[1], LAMBDA hunk :
         With(FitPos(e.lines, hunk), LAMBDA toPos :
           IF ~e.ok \/ toPos < 0 THEN [ok |-> FALSE, text |-> <<>>]
           ELSE [ok |-> TRUE,
                 text |-> Join(SubSeq(e.lines, 1, toPos)
                                 \o NewSide(hunk)
                                 \o SubSeq(e.lines, toPos + Len(OldSide(hunk)) + 1, Len(e.lines)),
                               <<LF>>)]))))


\* ------------------------------------------------------------------------
\* applyFileEdits and applyReversePatch
\* ------------------------------------------------------------------------
Absent == [present |-> FALSE, text |-> <<>>, list |-> <<>>]
SomeContent(t) == [present |-> TRUE, text |-> t, list |-> <<>>]
SomeEdits(es) == [present |-> TRUE, text |-> <<>>, list |-> es]

Edit(o, n) == [oldText |-> o, newText |-> n]

NoResponse == [kind |-> "none", text |-> <<>>]

\* The result of a call that rejected (an exception left applyFileEdits)
Threw == [threw |-> TRUE, response |-> NoResponse, rawDiff |-> EmptyText,
          fileExists |-> FALSE, newFileCreated |-> FALSE, validEdits |-> FALSE,
          reverseDiff |-> EmptyText, modifiedContent |-> <<>>]

\* const absolutePath = path.isAbsolute(filePath) ? filePath : path.resolve(parentDir, filePath)
AbsolutePath(parentDir, filePath) == PathResolve(Cwd, parentDir, filePath)

\* The working content after "if (content !== undefined) ... else if (edits !== undefined) ..."
Modify(originalContent, edits, content) ==
  IF content.present
  THEN [matchFound |-> TRUE, content |-> normalizeLineEndings(content.text), failed |-> <<>>]
  ELSE IF edits.present THEN ApplyEdits(originalContent, edits.list)
  ELSE [matchFound |-> TRUE, content |-> originalContent, failed |-> <<>>]

\* A slip of the comparison: lengths are compared instead of texts
ValidEditsByLength(originalContent, modifiedContent) == Len(originalContent) # Len(modifiedContent)

\* if (originalContent === modifiedContent) validEdits = false; else validEdits = true
ValidEdits(originalContent, modifiedContent) == originalContent # modifiedContent

\* A slip of the default: a file that cannot be read is written with LF everywhere
OriginalLineEndingAlwaysLF(rd, platform) ==
  IF rd.ok THEN detectLineEnding(rd.data, platform) ELSE <<LF>>

\* The line ending the file is written with
OriginalLineEnding(rd, platform) ==
  IF rd.ok THEN detectLineEnding(rd.data, platform) ELSE getPlatformLineEnding(platform)

\* rawDiff.includes('`'.repeat(n)): the header lines of the patch hold no backtick
\* (the paths of the model hold none), a line of a hunk is its marker and its text,
\* and a line break ends a run
DiffIncludes(rawDiff, n) ==
  \E h \in 1..Len(rawDiff.hunks) :
    \E l \in 1..Len(rawDiff.hunks[h].lines) :
      Includes(rawDiff.hunks[h].lines[l].text, [k \in 1..n |-> BACKQUOTE])

\* A slip of the loop: an if in the place of the while
numBackticksOnce(rawDiff, n) ==
  IF DiffIncludes(rawDiff, n) THEN n + 1 ELSE n

RECURSIVE numBackticks(_, _)
\* "let numBackticks = 3; while (rawDiff.includes('`'.repeat(numBackticks)))
\* numBackticks++": the value of numBackticks after the loop entered with n
numBackticks(rawDiff, n) ==
  IF DiffIncludes(rawDiff, n) THEN numBackticks(rawDiff, n + 1) ELSE n

\* The response text: which of the three messages, and what it embeds: the new
\* content, or formattedDiff, the diff between two fences of numBackticks backticks
Response(newFileCreated, validEdits, modifiedContent, rawDiff) ==
  IF newFileCreated THEN [kind |-> "created", text |-> modifiedContent, numBackticks |-> 0]
  ELSE IF validEdits
       THEN [kind |-> "updated", text |-> <<>>, numBackticks |-> numBackticks(rawDiff, 3)]
  ELSE [kind |-> "noedits", text |-> <<>>, numBackticks |-> 0]

\* A slip of the early return: the partly edited content is written before returning
EditNotFoundPartialWrite(fsv, absolutePath, m, fileExists, originalLineEnding) ==
  [fs |-> writeFile(fsv, absolutePath, applyPlatformLineEndings(m.content, originalLineEnding)).fs,
   res |-> [threw |-> FALSE, response |-> [kind |-> "error", text |-> m.failed],
            rawDiff |-> EmptyText, fileExists |-> fileExists,
            newFileCreated |-> FALSE, validEdits |-> FALSE,
            reverseDiff |-> EmptyText, modifiedContent |-> m.content]]

\* "if (!matchFound) return {response: `Error: Could not find exact match for edit:
\* ${edit.oldText}`, rawDiff: '', ...}": nothing is written
EditNotFound(fsv, absolutePath, m, fileExists, originalLineEnding) ==
  [fs |-> fsv,
   res |-> [threw |-> FALSE, response |-> [kind |-> "error", text |-> m.failed],
            rawDiff |-> EmptyText, fileExists |-> fileExists,
            newFileCreated |-> FALSE, validEdits |-> FALSE,
            reverseDiff |-> EmptyText, modifiedContent |-> m.content]]

\* applyFileEdits(parentDir, filePath, edits, content): the value it resolves to
\* (res) and the filesystem it leaves (fs)
applyFileEdits(platform, fsv, parentDir, filePath, edits, content) ==
  With(AbsolutePath(parentDir, filePath), LAMBDA absolutePath :
  With(readFile(fsv, absolutePath), LAMBDA rd :
  With(rd.ok, LAMBDA fileExists :
  With(OriginalLineEnding(rd, platform), LAMBDA originalLineEnding :
  With(IF rd.ok THEN normalizeLineEndings(rd.data) ELSE <<>>, LAMBDA originalContent :
  With(Modify(originalContent, edits, content), LAMBDA m :
  With(m.content, LAMBDA modifiedContent :
  With(ValidEdits(originalContent, modifiedContent), LAMBDA validEdits :
  With(applyPlatformLineEndings(modifiedContent, originalLineEnding), LAMBDA contentToWrite :
  With(writeFile(fsv, absolutePath, contentToWrite), LAMBDA wr :
  With(~fileExists, LAMBDA newFileCreated :
  With(createUnifiedDiff(originalContent, modifiedContent), LAMBDA rawDiff :
    IF ~m.matchFound
    THEN EditNotFound(fsv, absolutePath, m, fileExists, originalLineEnding)
    ELSE IF ~wr.ok THEN [fs |-> fsv, res |-> Threw]
    ELSE [fs |-> wr.fs,
          res |-> [threw |-> FALSE,
                   response |-> Response(newFileCreated, validEdits, modifiedContent, rawDiff),
                   rawDiff |-> rawDiff,
                   fileExists |-> fileExists, newFileCreated |-> newFileCreated,
                   validEdits |-> validEdits,
                   reverseDiff |-> createReverseUnifiedDiff(originalContent, modifiedContent),
                   modifiedContent |-> modifiedContent]]
  ))))))))))))

\* applyReversePatch without the test that applyPatch returned a string: what
\* applyPatch returned is written and the call reports success
applyReversePatchUnchecked(fsv, filePath, reverseDiff) ==
  With(PathResolve(Cwd, <<>>, filePath), LAMBDA p :
  With(readFile(fsv, p), LAMBDA currentContent :
  With(applyPatch(currentContent.data, reverseDiff), LAMBDA revertedContent :
  With(writeFile(fsv, p, revertedContent.text), LAMBDA wr :
    IF ~currentContent.ok THEN [fs |-> fsv, res |-> [success |-> FALSE, error |-> "read"]]
    ELSE IF ~wr.ok THEN [fs |-> fsv, res |-> [success |-> FALSE, error |-> "write"]]
    ELSE [fs |-> wr.fs, res |-> [success |-> TRUE, error |-> ""]]))))

\* applyReversePatch(filePath, reverseDiff)
applyReversePatch(fsv, filePath, reverseDiff) ==
  With(PathResolve(Cwd, <<>>, filePath), LAMBDA p :
  With(readFile(fsv, p), LAMBDA currentContent :
  With(applyPatch(currentContent.data, reverseDiff), LAMBDA revertedContent :
  With(writeFile(fsv, p, revertedContent.text), LAMBDA wr :
    IF ~currentContent.ok THEN [fs |-> fsv, res |-> [success |-> FALSE, error |-> "read"]]
    ELSE IF ~revertedContent.ok
         THEN [fs |-> fsv, res |-> [success |-> FALSE, error |-> "Failed to apply reverse patch"]]
    ELSE IF ~wr.ok THEN [fs |-> fsv, res |-> [success |-> FALSE, error |-> "write"]]
    ELSE [fs |-> wr.fs, res |-> [success |-> TRUE, error |-> ""]]))))

\* ------------------------------------------------------------------------
\* FileEditTool.handleToolUse
\* ------------------------------------------------------------------------
\* rawDiff / reverseDiff of a tool call: undefined, or the one entry {[validPath]: diff}
NoDiffs == [defined |-> FALSE, path |-> <<>>, diff |-> EmptyText]
DiffOf(path, diff) == [defined |-> TRUE, path |-> path, diff |-> diff]

\* The arguments EditFileArgsSchema accepts, and one value it rejects
EditFileArgs(path, content, edits) == [valid |-> TRUE, path |-> path, content |-> content, edits |-> edits]
InvalidArgs == [valid |-> FALSE, path |-> <<>>, content |-> Absent, edits |-> Absent]

\* refreshFileContents: every file of fileContext that can be read replaces its
\* entry; an entry whose file cannot be read stays as it was
refreshFileContents(fsv, fileContext, fileContents) ==
  With([i \in 1..Len(fileContext) |-> readFile(fsv, PathResolve(Cwd, <<>>, fileContext[i]))],
       LAMBDA rd :
  With({i \in 1..Len(fileContext) : rd[i].ok}, LAMBDA readable :
    [p \in (DOMAIN fileContents) \cup {fileContext[i] : i \in readable} |->
       IF \E i \in readable : fileContext[i] = p
       THEN rd[CHOOSE i \in readable : fileContext[i] = p /\ \A j \in readable :
                                          fileContext[j] = p => j <= i].data
       ELSE fileContents[p]]))

\* The early returns of handleToolUse: {finalText: [text], toolResults: [],
\* finalStatus: 'failure', newFileCreated: false}; nothing else is done
ToolFailure(fsv, fileContents, text) ==
  [fs |-> fsv, fileContents |-> fileContents,
   toolCallMessages |-> <<>>, userTextMessages |-> <<>>,
   res |-> [finalStatus |-> "failure", finalText |-> text, toolResults |-> <<>>,
            rawDiff |-> NoDiffs, reverseDiff |-> NoDiffs, newFileCreated |-> FALSE]]

\* The path of handleToolUse after the tool returned: the file contents are
\* refreshed and the messages of the result and of the follow-up are appended
ToolReturn(fsv, fileContext, fileContents, validPath, r) ==
  With(refreshFileContents(fsv, fileContext, fileContents), LAMBDA refreshed :
  With(IF r.newFileCreated
       THEN [kind |-> "New file has been created", result |-> r.response, files |-> <<>>]
       ELSE [kind |-> "New file content", result |-> r.response, files |-> refreshed],
       LAMBDA completed :
  With(IF r.newFileCreated THEN "followupTemplateNewFile" ELSE "followupTemplateEdit",
       LAMBDA followup :
     [fs |-> fsv, fileContents |-> refreshed,
      toolCallMessages |-> <<[role |-> "assistant", content |-> completed],
                             [role |-> "user", content |-> followup]>>,
      userTextMessages |-> <<[role |-> "user", content |-> completed]>>,
      res |-> [finalStatus |-> "success", finalText |-> "Tool edit_file returned",
               toolResults |-> <<r.response>>,
               rawDiff |-> IF r.validEdits THEN DiffOf(validPath, r.rawDiff) ELSE NoDiffs,
               reverseDiff |-> IF r.validEdits THEN DiffOf(validPath, r.reverseDiff) ELSE NoDiffs,
               newFileCreated |-> r.newFileCreated]])))

\* A slip of the try block: a path that validatePath rejects is edited all the same
EditFileUnchecked(platform, fsv, parentDir, allowedDirs, fileContext, fileContents, args) ==
  With(validatePath(fsv, parentDir, args.path, allowedDirs), LAMBDA v :
  With(IF v.status = "ok" THEN PathStr(v.path) ELSE PathStr(Absolute(parentDir, args.path)),
       LAMBDA validPath :
  With(applyFileEdits(platform, fsv, parentDir, validPath, args.edits, args.content), LAMBDA r :
    IF r.res.threw THEN ToolFailure(fsv, fileContents, "Error applying edits")
    ELSE ToolReturn(r.fs, fileContext, fileContents, validPath, r.res))))

\* try { validPath = await validatePath(...); ... = await applyFileEdits(this.parentDir,
\* validPath, edits, content) ... } catch { return failure }
EditFile(platform, fsv, parentDir, allowedDirs, fileContext, fileContents, args) ==
  With(validatePath(fsv, parentDir, args.path, allowedDirs), LAMBDA v :
  With(PathStr(v.path), LAMBDA validPath :
  With(applyFileEdits(platform, fsv, parentDir, validPath, args.edits, args.content), LAMBDA r :
    IF v.status # "ok" \/ r.res.threw
    THEN ToolFailure(fsv, fileContents, "Error applying edits")
    ELSE ToolReturn(r.fs, fileContext, fileContents, validPath, r.res))))

\* handleToolUse without the test for content and edits given together
handleToolUseBothAllowed(platform, fsv, parentDir, allowedDirs, fileContext, fileContents, toolName, toolArgs) ==
  IF toolName # "edit_file" THEN ToolFailure(fsv, fileContents, "Unknown tool")
  ELSE IF ~toolArgs.valid THEN ToolFailure(fsv, fileContents, "Invalid arguments for edit_file")
  ELSE IF ~toolArgs.content.present /\ ~toolArgs.edits.present
       THEN ToolFailure(fsv, fileContents, "Either content or edits must be provided")
  ELSE EditFile(platform, fsv, parentDir, allowedDirs, fileContext, fileContents, toolArgs)

\* handleToolUse(toolName, toolArgs, toolCallMessages, userTextMessages): its result
\* (res), the messages it appends, and the filesystem and file contents it leaves
handleToolUse(platform, fsv, parentDir, allowedDirs, fileContext, fileContents, toolName, toolArgs) ==
  IF toolName # "edit_file" THEN ToolFailure(fsv, fileContents, "Unknown tool")
  ELSE IF ~toolArgs.valid THEN ToolFailure(fsv, fileContents, "Invalid arguments for edit_file")
  ELSE IF ~toolArgs.content.present /\ ~toolArgs.edits.present
       THEN ToolFailure(fsv, fileContents, "Either content or edits must be provided")
  ELSE IF toolArgs.content.present /\ toolArgs.edits.present
       THEN ToolFailure(fsv, fileContents, "Cannot provide both content and edits")
  ELSE EditFile(platform, fsv, parentDir, allowedDirs, fileContext, fileContents, toolArgs)

\* ------------------------------------------------------------------------
\* State
\* ------------------------------------------------------------------------
VARIABLES
  platform,            \* os.platform()
  fs,                  \* the filesystem
  pc,                  \* what the caller did last
  pre,                 \* the filesystem before the last call (of processQuery: before the query)
  call,                \* the last applyFileEdits call: its arguments and its result
  undo,                \* the last applyReversePatch call: its arguments and its result
  parentDir,           \* FileEditTool.parentDir
  allowedDirectories,  \* FileEditTool.allowedDirectories
  fileContext,         \* FileEditTool.fileContext
  fileContents,        \* FileEditTool.fileContents
  toolCallMessages,    \* the messages handed to handleToolUse as toolCallMessages
  userTextMessages,    \* the messages handed to handleToolUse as userTextMessages
  vp,                  \* the last validatePath call: its arguments and its result
  tool,                \* the last handleToolUse call: its arguments and its result
  maxToolUseRounds,    \* FileEditTool.maxToolUseRounds
  query,               \* the locals of the processQuery call
  inflight             \* the applyFileEdits calls under way, one for each caller

toolVars == <<parentDir, allowedDirectories, fileContext, fileContents,
              toolCallMessages, userTextMessages, vp, tool, maxToolUseRounds, query, inflight>>

vars == <<platform, fs, pc, pre, call, undo, parentDir, allowedDirectories, fileContext,
          fileContents, toolCallMessages, userTextMessages, vp, tool, maxToolUseRounds, query,
          inflight>>

\* The sandbox directory and the file the calls are about
SandboxDir == <<<<"a">>>>
TheFile == <<<<"a">>, <<"f">>>>
TheFilePath == PathStr(TheFile)

\* The callers of applyFileEdits that do not wait for each other, and what a call
\* under way holds: its arguments, the filesystem as it was when its readFile
\* resolved (seen), whether no call had written by then (early), its place among
\* the calls that returned (order) and what it returned (res)
Callers == {1, 2}
NoInflight ==
  [i \in Callers |-> [stage |-> "idle", edits |-> Absent, content |-> Absent, seen |-> <<>>,
                      early |-> FALSE, order |-> 0, res |-> Threw]]

NoCall == [path |-> <<>>, edits |-> Absent, content |-> Absent, res |-> Threw]
NoUndo == [path |-> <<>>, patch |-> EmptyText, res |-> [success |-> FALSE, error |-> ""]]
NoValidation == [requestedPath |-> <<>>, res |-> AccessDenied]
NoTool == [toolName |-> "", toolArgs |-> InvalidArgs,
           res |-> ToolFailure(<<>>, <<>>, "").res]

\* The default of the constructor's maxToolUseRounds
DefaultMaxToolUseRounds == 5

\* The locals of processQuery as it declares them: toolCallCount, finalStatus,
\* rawDiff, reverseDiff (undefined: no entry), toolCallRounds,
\* finalResponseMessages, toolResults; the tool calls of the response that are
\* still to be handled (pending) and the number of sendPrompt calls (modelCalls)
NoQuery ==
  [toolCallCount |-> 0, finalStatus |-> "success", rawDiff |-> <<>>, reverseDiff |-> <<>>,
   toolCallRounds |-> 0, finalResponseMessages |-> <<>>, toolResults |-> <<>>,
   pending |-> <<>>, modelCalls |-> 0]

\* A FileEditTool over the sandbox directory, as constructed: no file contents are
\* held yet and no message has been exchanged
ToolConstructed ==
  /\ parentDir = PathStr(SandboxDir)
  /\ allowedDirectories = <<PathStr(SandboxDir)>>
  /\ fileContents = <<>>
  /\ toolCallMessages = <<>>
  /\ userTextMessages = <<>>
  /\ vp = NoValidation
  /\ tool = NoTool
  /\ maxToolUseRounds = DefaultMaxToolUseRounds
  /\ query = NoQuery

\* The bytes of the file, and whether it is there
FileThere(fsv) == Node(fsv, TheFile).kind = "file"
FileData(fsv) == Node(fsv, TheFile).data

\* A filesystem with the sandbox directory, holding the file with data d
FsWithFile(d) == (SandboxDir :> DirNode) @@ (TheFile :> FileNode(d))
FsWithoutFile == (SandboxDir :> DirNode)

\* --- inputs ---
LineChars == {"a", CR, LF}
FileContents == StrUpTo(LineChars, MaxFileLen)
Texts == StrUpTo(LineChars, MaxTextLen)
SingleEdits == {<<Edit(o, n)>> : o \in StrUpTo(LineChars, 1), n \in Texts}

Init ==
  /\ platform \in Platforms
  /\ fs \in {FsWithFile(d) : d \in FileContents} \cup {FsWithoutFile}
  /\ pc = "idle"
  /\ pre = fs
  /\ call = NoCall
  /\ inflight = NoInflight
  /\ undo = NoUndo
  /\ fileContext = <<>>
  /\ ToolConstructed

\* A call of applyFileEdits(parentDir, filePath, edits, content)
CallApplyFileEdits(filePath, edits, content) ==
  /\ pc = "idle"
  /\ \E r \in {applyFileEdits(platform, fs, PathStr(SandboxDir), filePath, edits, content)} :
       /\ fs' = r.fs
       /\ call' = [path |-> filePath, edits |-> edits, content |-> content, res |-> r.res]
  /\ pc' = "applied"
  /\ pre' = fs
  /\ UNCHANGED <<platform, undo>>
  /\ UNCHANGED toolVars

\* A call of applyReversePatch(filePath, reverseDiff) with the reverse diff the last
\* applyFileEdits call returned
CallApplyReversePatch ==
  /\ pc = "applied"
  /\ ~call.res.threw
  /\ \E r \in {applyReversePatch(fs, call.path, call.res.reverseDiff)} :
       /\ fs' = r.fs
       /\ undo' = [path |-> call.path, patch |-> call.res.reverseDiff, res |-> r.res]
  /\ pc' = "reverted"
  /\ UNCHANGED <<platform, pre, call>>
  /\ UNCHANGED toolVars

WriteContent == \E c \in Texts : CallApplyFileEdits(TheFilePath, Absent, SomeContent(c))

ApplyOneEdit == \E es \in SingleEdits : CallApplyFileEdits(TheFilePath, SomeEdits(es), Absent)

Spec == Init /\ [][WriteContent \/ ApplyOneEdit \/ CallApplyReversePatch]_vars

\* --- applyReversePatch on a file that is not what the reverse diff was made
\* --- against: the file is any file of Init, the reverse diff is the one
\* --- createReverseUnifiedDiff makes of any two texts, or the empty string
ApplyAnyReversePatch ==
  /\ pc = "idle"
  /\ \E o \in StrUpTo({"a", LF}, MaxTextLen), m \in StrUpTo({"a", LF}, MaxTextLen) :
     \E patch \in {createReverseUnifiedDiff(o, m), EmptyText} :
     \E r \in {applyReversePatch(fs, TheFilePath, patch)} :
       /\ fs' = r.fs
       /\ undo' = [path |-> TheFilePath, patch |-> patch, res |-> r.res]
  /\ pc' = "reverted"
  /\ pre' = fs
  /\ UNCHANGED <<platform, call>>
  /\ UNCHANGED toolVars

SpecUndo == Init /\ [][ApplyAnyReversePatch]_vars

\* --- calls of applyFileEdits that overlap: specification SpecConcurrent ---
\* What is at the path when the calls start: nothing, a directory, a file or a file
\* that may not be read
InitConcurrent ==
  /\ platform = "linux"
  /\ fs \in LET files == {<<"a", BACKQUOTE>>, <<BACKQUOTE, BACKQUOTE, BACKQUOTE, LF, "a">>}
            IN {FsWithoutFile, (SandboxDir :> DirNode) @@ (TheFile :> DirNode)}
                 \cup {FsWithFile(d) : d \in files}
                 \cup {(SandboxDir :> DirNode) @@ (TheFile :> WriteOnlyNode(d)) : d \in files}
  /\ pc = "idle"
  /\ pre = fs
  /\ call = NoCall
  /\ inflight = NoInflight
  /\ undo = NoUndo
  /\ fileContext = <<>>
  /\ ToolConstructed

\* applyFileEdits up to "await fs.readFile(absolutePath, 'utf-8')": the call of
\* caller i starts, with a content or with one edit, and its read resolves with
\* the file as it is now
AwaitReadFile(i) ==
  /\ inflight[i].stage = "idle"
  /\ \E rq \in {[edits |-> Absent,
                  content |-> SomeContent(<<BACKQUOTE, BACKQUOTE, BACKQUOTE, BACKQUOTE>>)]}
                \cup {[edits |-> SomeEdits(<<Edit(o, <<n>>)>>), content |-> Absent] :
                        o \in {<<"a">>, <<BACKQUOTE>>, <<"z">>}, n \in {"b", "c"}} :
       inflight' = [inflight EXCEPT ![i] =
                      [stage |-> "read", edits |-> rq.edits, content |-> rq.content,
                       seen |-> fs,
                       early |-> \A j \in Callers : inflight[j].stage # "done",
                       order |-> 0, res |-> Threw]]
  /\ UNCHANGED <<platform, fs, pc, pre, call, undo, parentDir, allowedDirectories, fileContext,
                 fileContents, toolCallMessages, userTextMessages, vp, tool, maxToolUseRounds,
                 query>>

\* The write guarded by a comparison: the call rejects when the file is no longer
\* what it read
AwaitWriteFileChecked(i) ==
  /\ inflight[i].stage = "read"
  /\ \E r \in {applyFileEdits(platform, inflight[i].seen, PathStr(SandboxDir), TheFilePath,
                               inflight[i].edits, inflight[i].content)} :
     \E wr \in {IF r.res.threw \/ r.res.response.kind = "error"
                   \/ readFile(fs, TheFile) # readFile(inflight[i].seen, TheFile)
                THEN [ok |-> FALSE, fs |-> fs]
                ELSE writeFile(fs, TheFile, Node(r.fs, TheFile).data)} :
       /\ fs' = wr.fs
       /\ inflight' = [inflight EXCEPT ![i] =
            [@ EXCEPT !.stage = "done",
                      !.order = Cardinality({j \in Callers : inflight[j].stage = "done"}) + 1,
                      !.res = IF r.res.threw \/ wr.ok THEN r.res
                              ELSE IF r.res.response.kind = "error" THEN r.res ELSE Threw]]
  /\ UNCHANGED <<platform, pc, pre, call, undo, parentDir, allowedDirectories, fileContext,
                 fileContents, toolCallMessages, userTextMessages, vp, tool, maxToolUseRounds,
                 query>>

\* The rest of applyFileEdits, from the read to the return: the content, the diffs
\* and the response come from what the read returned (seen), and
\* "await fs.writeFile(absolutePath, contentToWrite, 'utf-8')" writes to the file
\* as it is now; nothing is written when an edit has no match, and the call rejects
\* when the write fails
AwaitWriteFile(i) ==
  /\ inflight[i].stage = "read"
  /\ \E r \in {applyFileEdits(platform, inflight[i].seen, PathStr(SandboxDir), TheFilePath,
                               inflight[i].edits, inflight[i].content)} :
     \E wr \in {IF r.res.threw \/ r.res.response.kind = "error"
                THEN [ok |-> FALSE, fs |-> fs]
                ELSE writeFile(fs, TheFile, Node(r.fs, TheFile).data)} :
       /\ fs' = wr.fs
       /\ inflight' = [inflight EXCEPT ![i] =
            [@ EXCEPT !.stage = "done",
                      !.order = Cardinality({j \in Callers : inflight[j].stage = "done"}) + 1,
                      !.res = IF r.res.threw \/ wr.ok THEN r.res
                              ELSE IF r.res.response.kind = "error" THEN r.res ELSE Threw]]
  /\ UNCHANGED <<platform, pc, pre, call, undo, parentDir, allowedDirectories, fileContext,
                 fileContents, toolCallMessages, userTextMessages, vp, tool, maxToolUseRounds,
                 query>>

SpecConcurrent ==
  InitConcurrent /\ [][\/ \E i \in Callers : AwaitReadFile(i)
                       \/ \E i \in Callers : AwaitWriteFile(i)]_vars


\* --- the edit loop on its own: specification SpecEdit ---
SeqChars == {"a", SP, LF}

\* The edits whose two texts have at most b characters together
EditsWithin(b) ==
  UNION {{Edit(o, n) : n \in StrUpTo(SeqChars, b - Len(o))} : o \in StrUpTo(SeqChars, b)}

RECURSIVE EditListsOf(_, _)
\* The lists of k edits whose texts have at most b characters together
EditListsOf(k, b) ==
  IF k = 0 THEN {<<>>}
  ELSE UNION {{<<e>> \o l : l \in EditListsOf(k - 1, b - Len(e.oldText) - Len(e.newText))} :
                e \in EditsWithin(b)}

EditLists == UNION {EditListsOf(k, MaxEditChars) : k \in 2..MaxEdits}

InitEdit ==
  /\ platform = "linux"
  /\ fs \in {FsWithFile(d) : d \in StrUpTo(SeqChars, MaxSeqFileLen)}
  /\ pc = "idle"
  /\ pre = fs
  /\ call = NoCall
  /\ inflight = NoInflight
  /\ undo = NoUndo
  /\ fileContext = <<>>
  /\ ToolConstructed

ApplySingleEdit ==
  \E e \in EditsWithin(MaxEditChars) :
    CallApplyFileEdits(TheFilePath, SomeEdits(<<e>>), Absent)

ApplyEditList == \E es \in EditLists : CallApplyFileEdits(TheFilePath, SomeEdits(es), Absent)

SpecEdit == InitEdit /\ [][ApplySingleEdit \/ ApplyEditList]_vars

\* --- one edit against one file: specification SpecOne ---
MatchChars == {"a", SP, LF, DOLLAR}

InitOne ==
  /\ platform = "linux"
  /\ fs \in {FsWithFile(d) : d \in StrUpTo(MatchChars, MaxSeqFileLen)}
  /\ pc = "idle"
  /\ pre = fs
  /\ call = NoCall
  /\ inflight = NoInflight
  /\ undo = NoUndo
  /\ fileContext = <<>>
  /\ ToolConstructed

ApplyMatchEdit ==
  \E o \in StrUpTo(MatchChars, MaxTextLen), n \in StrUpTo(MatchChars, MaxTextLen) :
    CallApplyFileEdits(TheFilePath, SomeEdits(<<Edit(o, n)>>), Absent)

SpecOne == InitOne /\ [][ApplyMatchEdit]_vars

\* --- path validation: specification SpecPath ---
\* File and directory names
Name ==
  [f |-> <<"f">>, ab |-> <<"a", "b">>, o |-> <<"o">>, e |-> <<"e">>, etc |-> <<"e", "t", "c">>,
   passwd |-> <<"p", "a", "s", "s", "w", "d">>, l |-> <<"l">>, d |-> <<"d">>, x |-> <<"x">>,
   m |-> <<"m">>, n |-> <<"n">>]
DotDot == <<DOT, DOT>>

\* The relative path string of a list of segments
RelStr(segs) == Tail(PathStr(segs))

OutsideDir == <<Name.o>>
OutsideFile == <<Name.o, Name.f>>
SiblingDir == <<Name.ab>>
SiblingFile == <<Name.ab, Name.f>>
EtcPasswd == <<Name.etc, Name.passwd>>

\* What every filesystem holds: the sandbox directory /a, the directory /ab beside
\* it, the directory /o outside it, /etc/passwd, and a link in the sandbox whose
\* target does not exist
FsBase ==
  (SandboxDir :> DirNode) @@ (SiblingDir :> DirNode) @@ (SiblingFile :> FileNode(<<"a">>))
    @@ (OutsideDir :> DirNode) @@ (OutsideFile :> FileNode(<<"a">>))
    @@ (<<Name.etc>> :> DirNode) @@ (EtcPasswd :> FileNode(<<"a">>))
    @@ (SandboxDir \o <<Name.x>> :> LinkNode(<<Name.o, Name.m>>))

\* What a filesystem may hold besides: the file /a/f, the link /a/l to the file
\* /o/f, the link /a/d to the directory /o
FsOptions ==
  {TheFile :> FileNode(<<"a">>),
   SandboxDir \o <<Name.l>> :> LinkNode(OutsideFile),
   SandboxDir \o <<Name.d>> :> LinkNode(OutsideDir)}

RECURSIVE Merge(_)
Merge(fns) == IF fns = {} THEN <<>> ELSE LET f == CHOOSE f \in fns : TRUE IN f @@ Merge(fns \ {f})

LinkedFileSystems == {Merge(opts) @@ FsBase : opts \in SUBSET FsOptions}

BaseNames == {SandboxDir[1], Name.ab, Name.o, Name.e, Name.etc, Name.passwd}

RECURSIVE NamesUpTo(_)
\* The resolved paths of at most n names
NamesUpTo(n) ==
  IF n = 0 THEN {<<>>}
  ELSE NamesUpTo(n - 1) \cup {Append(b, c) : b \in {d \in NamesUpTo(n - 1) : Len(d) = n - 1}, c \in BaseNames}

Bases == NamesUpTo(MaxDepth)

\* The requested paths
TraversalRequest == RelStr(<<DotDot, DotDot, Name.etc, Name.passwd>>)
RequestedPaths ==
  {RelStr(<<Name.f>>), RelStr(<<Name.l>>), TraversalRequest,
   RelStr(<<<<TILDE>>, Name.f>>),
   PathStr(SandboxDir), TheFilePath, PathStr(SiblingFile), PathStr(OutsideFile),
   PathStr(SandboxDir \o <<Name.l>>), PathStr(SandboxDir \o <<Name.d, Name.f>>),
   PathStr(SandboxDir \o <<Name.d, Name.n>>),
   PathStr(SandboxDir \o <<Name.x>>), PathStr(SandboxDir \o <<Name.m, Name.f>>),
   PathStr(SandboxDir \o <<Name.n>>), PathStr(SandboxDir \o <<DotDot, Name.o, Name.f>>)}

InitPath ==
  /\ platform = "linux"
  /\ fs \in LinkedFileSystems
  /\ pc = "idle"
  /\ pre = fs
  /\ call = NoCall
  /\ inflight = NoInflight
  /\ undo = NoUndo
  /\ parentDir \in {PathStr(b) : b \in Bases}
  /\ allowedDirectories \in {<<parentDir>>, <<PathStr(SandboxDir)>>}
  /\ fileContext = <<>>
  /\ fileContents = <<>>
  /\ toolCallMessages = <<>>
  /\ userTextMessages = <<>>
  /\ vp = NoValidation
  /\ tool = NoTool
  /\ maxToolUseRounds = DefaultMaxToolUseRounds
  /\ query = NoQuery

\* A call of validatePath(parentDir, requestedPath, allowedDirectories)
ValidatePath ==
  \E requestedPath \in RequestedPaths :
    /\ pc = "idle"
    /\ pc' = "validated"
    /\ pre' = fs
    /\ vp' = [requestedPath |-> requestedPath,
              res |-> validatePath(fs, parentDir, requestedPath, allowedDirectories)]
    /\ UNCHANGED <<platform, fs, call, undo, parentDir, allowedDirectories, fileContext,
                   fileContents, toolCallMessages, userTextMessages, tool,
                   maxToolUseRounds, query,
                 inflight>>

SpecPath == InitPath /\ [][ValidatePath]_vars

\* --- tool calls: specification SpecTool ---
ToolNames == {"edit_file", "read_file"}

\* The content / edits of a request: content only, edits only (an anchor that is
\* in the file, one that is not), both, neither
Payloads ==
  {[content |-> SomeContent(<<"b">>), edits |-> Absent],
   [content |-> Absent, edits |-> SomeEdits(<<Edit(<<"a">>, <<"b">>)>>)],
   [content |-> Absent, edits |-> SomeEdits(<<Edit(<<"z">>, <<"b">>)>>)],
   [content |-> SomeContent(<<"b">>), edits |-> SomeEdits(<<Edit(<<"a">>, <<"b">>)>>)],
   [content |-> Absent, edits |-> Absent]}

ToolArgs ==
  {InvalidArgs} \cup {EditFileArgs(p, l.content, l.edits) : p \in RequestedPaths, l \in Payloads}

InitTool ==
  /\ platform \in Platforms
  /\ fs \in LinkedFileSystems
  /\ pc = "idle"
  /\ pre = fs
  /\ call = NoCall
  /\ inflight = NoInflight
  /\ undo = NoUndo
  /\ fileContext \in {<<>>, <<TheFilePath>>}
  /\ ToolConstructed

\* A call of handleToolUse(toolName, toolArgs, toolCallMessages, userTextMessages)
HandleToolUse ==
  /\ pc = "idle"
  /\ \E toolName \in ToolNames, toolArgs \in ToolArgs :
       \E r \in {handleToolUse(platform, fs, parentDir, allowedDirectories, fileContext,
                                fileContents, toolName, toolArgs)} :
         /\ fs' = r.fs
         /\ fileContents' = r.fileContents
         /\ toolCallMessages' = toolCallMessages \o r.toolCallMessages
         /\ userTextMessages' = userTextMessages \o r.userTextMessages
         /\ tool' = [toolName |-> toolName, toolArgs |-> toolArgs, res |-> r.res]
  /\ pc' = "handled"
  /\ pre' = fs
  /\ UNCHANGED <<platform, call, undo, parentDir, allowedDirectories, fileContext, vp,
                 maxToolUseRounds, query,
                 inflight>>

SpecTool == InitTool /\ [][ValidatePath \/ HandleToolUse]_vars

\* --- processQuery: specification SpecQuery ---
\* What sendPrompt may resolve to: a message with or without content, without
\* tool_calls or with a list of them.  A tool call holds arguments that
\* JSON.parse reads (json) or rejects; the calls write the file of the sandbox,
\* write it once more with another content, write a new file beside it, write a
\* file outside the sandbox, and make an edit whose anchor is nowhere
Responses ==
  LET Call(args) == [name |-> "edit_file", json |-> TRUE, args |-> args]
      writeF == Call(EditFileArgs(TheFilePath, SomeContent(<<"b">>), Absent))
      writeN == Call(EditFileArgs(PathStr(SandboxDir \o <<Name.n>>), SomeContent(<<"b">>), Absent))
      writeO == Call(EditFileArgs(PathStr(OutsideFile), SomeContent(<<"b">>), Absent))
      writeF2 == Call(EditFileArgs(TheFilePath, SomeContent(<<"c">>), Absent))
      editZ == Call(EditFileArgs(TheFilePath, Absent, SomeEdits(<<Edit(<<"z">>, <<"b">>)>>)))
      malformed == [name |-> "edit_file", json |-> FALSE, args |-> InvalidArgs]
  IN {[content |-> c, hasToolCalls |-> FALSE, tool_calls |-> <<>>] : c \in BOOLEAN}
       \cup {[content |-> FALSE, hasToolCalls |-> TRUE, tool_calls |-> calls] :
               calls \in {<<>>, <<writeF>>, <<writeF, writeO, writeN>>, <<writeF, editZ, writeN>>,
                          <<writeO, writeF>>, <<writeN, malformed, writeF>>,
                          <<writeF, writeF2>>}}

InitQuery ==
  /\ platform = "linux"
  /\ fs \in {FsBase, (TheFile :> FileNode(<<"a">>)) @@ FsBase}
  /\ pc = "idle"
  /\ pre = fs
  /\ call = NoCall
  /\ inflight = NoInflight
  /\ undo = NoUndo
  /\ parentDir = PathStr(SandboxDir)
  /\ allowedDirectories = <<PathStr(SandboxDir)>>
  /\ fileContext \in {<<>>, <<TheFilePath>>}
  /\ fileContents = <<>>
  /\ toolCallMessages = <<>>
  /\ userTextMessages = <<>>
  /\ vp = NoValidation
  /\ tool = NoTool
  /\ maxToolUseRounds \in (-1)..MaxRounds
  /\ query = NoQuery

\* processQuery up to its loop: the file contents are refreshed and put before the
\* query in the first message of messagesForUser and of messagesForToolCall
ProcessQuery ==
  /\ pc = "idle"
  /\ \E refreshed \in {refreshFileContents(fs, fileContext, fileContents)} :
       /\ fileContents' = refreshed
       /\ userTextMessages' = <<[role |-> "user", content |-> refreshed]>>
       /\ toolCallMessages' = <<[role |-> "user", content |-> refreshed]>>
  /\ query' = NoQuery
  /\ pc' = "loop"
  /\ UNCHANGED <<platform, fs, pre, call, undo, parentDir, allowedDirectories, fileContext,
                 vp, tool, maxToolUseRounds,
                 inflight>>

\* The loop with the condition toolCallRounds <= maxToolUseRounds
SendPromptOffByOne ==
  /\ pc = "loop"
  /\ query.toolCallRounds <= maxToolUseRounds
  /\ \/ /\ pc' = "threw"
        /\ query' = [query EXCEPT !.modelCalls = @ + 1]
        /\ UNCHANGED <<toolCallMessages, userTextMessages>>
     \/ \E response \in Responses :
          \E said \in {IF response.content THEN <<[role |-> "assistant", content |-> "content"]>>
                       ELSE <<>>} :
          \E q \in {[query EXCEPT !.modelCalls = @ + 1,
                                  !.finalResponseMessages =
                                     @ \o (IF response.content THEN <<"content">> ELSE <<>>)]} :
            /\ userTextMessages' = userTextMessages \o said
            /\ toolCallMessages' = toolCallMessages \o said
            /\ IF response.hasToolCalls
               THEN /\ query' = [q EXCEPT !.toolCallRounds = @ + 1,
                                          !.pending = response.tool_calls]
                    /\ pc' = IF response.tool_calls = <<>> THEN "loop" ELSE "tools"
               ELSE /\ query' = [q EXCEPT !.finalStatus =
                                   IF q.toolCallRounds >= maxToolUseRounds
                                   THEN "retry_limit_reached"
                                   ELSE IF q.toolCallCount = 0 THEN "no_tool_calls" ELSE @]
                    /\ pc' = "returned"
  /\ UNCHANGED <<platform, fs, pre, call, undo, parentDir, allowedDirectories, fileContext,
                 fileContents, vp, tool, maxToolUseRounds,
                 inflight>>

\* One pass of the loop up to the tool calls: sendPrompt rejects (as does a missing
\* API key) and processQuery throws, or it resolves to a response; without
\* tool_calls the loop is left and processQuery returns, its status set by the
\* statements after the loop
SendPrompt ==
  /\ pc = "loop"
  /\ query.toolCallRounds < maxToolUseRounds
  /\ \/ /\ pc' = "threw"
        /\ query' = [query EXCEPT !.modelCalls = @ + 1]
        /\ UNCHANGED <<toolCallMessages, userTextMessages>>
     \/ \E response \in Responses :
          \E said \in {IF response.content THEN <<[role |-> "assistant", content |-> "content"]>>
                       ELSE <<>>} :
          \E q \in {[query EXCEPT !.modelCalls = @ + 1,
                                  !.finalResponseMessages =
                                     @ \o (IF response.content THEN <<"content">> ELSE <<>>)]} :
            /\ userTextMessages' = userTextMessages \o said
            /\ toolCallMessages' = toolCallMessages \o said
            /\ IF response.hasToolCalls
               THEN /\ query' = [q EXCEPT !.toolCallRounds = @ + 1,
                                          !.pending = response.tool_calls]
                    /\ pc' = IF response.tool_calls = <<>> THEN "loop" ELSE "tools"
               ELSE /\ query' = [q EXCEPT !.finalStatus =
                                   IF q.toolCallRounds >= maxToolUseRounds
                                   THEN "retry_limit_reached"
                                   ELSE IF q.toolCallCount = 0 THEN "no_tool_calls" ELSE @]
                    /\ pc' = "returned"
  /\ UNCHANGED <<platform, fs, pre, call, undo, parentDir, allowedDirectories, fileContext,
                 fileContents, vp, tool, maxToolUseRounds,
                 inflight>>

\* The tool calls with rawDiff = newRawDiff and reverseDiff = newReverseDiff in
\* place of the merge into the entries of the earlier calls
HandleToolCallAssign ==
  /\ pc = "tools"
  /\ \E toolCall \in {Head(query.pending)} :
       IF ~toolCall.json
       THEN /\ pc' = "threw"
            /\ UNCHANGED <<fs, fileContents, toolCallMessages, userTextMessages, tool, query>>
       ELSE \E r \in {handleToolUse(platform, fs, parentDir, allowedDirectories, fileContext,
                                     fileContents, toolCall.name, toolCall.args)} :
              /\ fs' = r.fs
              /\ fileContents' = r.fileContents
              /\ toolCallMessages' = toolCallMessages \o r.toolCallMessages
              /\ userTextMessages' = userTextMessages \o r.userTextMessages
              /\ tool' = [toolName |-> toolCall.name, toolArgs |-> toolCall.args, res |-> r.res]
              /\ query' = [query EXCEPT
                   !.finalResponseMessages = Append(@, r.res.finalText),
                   !.toolResults = @ \o r.res.toolResults,
                   !.finalStatus = r.res.finalStatus,
                   !.toolCallCount = @ + 1,
                   !.rawDiff = IF r.res.rawDiff.defined
                               THEN (r.res.rawDiff.path :> r.res.rawDiff.diff) ELSE <<>>,
                   !.reverseDiff = IF r.res.reverseDiff.defined
                                   THEN (r.res.reverseDiff.path :> r.res.reverseDiff.diff)
                                   ELSE <<>>,
                   !.pending = Tail(@)]
              /\ pc' = IF Tail(query.pending) = <<>> THEN "loop" ELSE "tools"
  /\ UNCHANGED <<platform, pre, call, undo, parentDir, allowedDirectories, fileContext, vp,
                 maxToolUseRounds,
                 inflight>>

\* for (const toolCall of response.tool_calls): JSON.parse throws and processQuery
\* with it, or handleToolUse is awaited and its result is added to the locals
HandleToolCall ==
  /\ pc = "tools"
  /\ \E toolCall \in {Head(query.pending)} :
       IF ~toolCall.json
       THEN /\ pc' = "threw"
            /\ UNCHANGED <<fs, fileContents, toolCallMessages, userTextMessages, tool, query>>
       ELSE \E r \in {handleToolUse(platform, fs, parentDir, allowedDirectories, fileContext,
                                     fileContents, toolCall.name, toolCall.args)} :
              /\ fs' = r.fs
              /\ fileContents' = r.fileContents
              /\ toolCallMessages' = toolCallMessages \o r.toolCallMessages
              /\ userTextMessages' = userTextMessages \o r.userTextMessages
              /\ tool' = [toolName |-> toolCall.name, toolArgs |-> toolCall.args, res |-> r.res]
              /\ query' = [query EXCEPT
                   !.finalResponseMessages = Append(@, r.res.finalText),
                   !.toolResults = @ \o r.res.toolResults,
                   !.finalStatus = r.res.finalStatus,
                   !.toolCallCount = @ + 1,
                   !.rawDiff = IF r.res.rawDiff.defined
                               THEN (r.res.rawDiff.path :> r.res.rawDiff.diff) @@ @ ELSE @,
                   !.reverseDiff = IF r.res.reverseDiff.defined
                                   THEN (r.res.reverseDiff.path :> r.res.reverseDiff.diff) @@ @
                                   ELSE @,
                   !.pending = Tail(@)]
              /\ pc' = IF Tail(query.pending) = <<>> THEN "loop" ELSE "tools"
  /\ UNCHANGED <<platform, pre, call, undo, parentDir, allowedDirectories, fileContext, vp,
                 maxToolUseRounds,
                 inflight>>

\* The return with the test toolCallRounds > maxToolUseRounds after the loop
ReturnStrict ==
  /\ pc = "loop"
  /\ ~(query.toolCallRounds < maxToolUseRounds)
  /\ query' = [query EXCEPT !.finalStatus =
                 IF query.toolCallRounds > maxToolUseRounds THEN "retry_limit_reached" ELSE @]
  /\ pc' = "returned"
  /\ UNCHANGED <<platform, fs, pre, call, undo, parentDir, allowedDirectories, fileContext,
                 fileContents, toolCallMessages, userTextMessages, vp, tool, maxToolUseRounds,
                 inflight>>

\* The loop condition is false: the statements after the loop, and the return
Return ==
  /\ pc = "loop"
  /\ ~(query.toolCallRounds < maxToolUseRounds)
  /\ query' = [query EXCEPT !.finalStatus =
                 IF query.toolCallRounds >= maxToolUseRounds THEN "retry_limit_reached" ELSE @]
  /\ pc' = "returned"
  /\ UNCHANGED <<platform, fs, pre, call, undo, parentDir, allowedDirectories, fileContext,
                 fileContents, toolCallMessages, userTextMessages, vp, tool, maxToolUseRounds,
                 inflight>>

\* The caller reverts the query: applyReversePatch(p, reverseDiff[p]) for every path
\* p of the reverseDiff processQuery returned
RevertQuery ==
  /\ pc = "returned"
  /\ DOMAIN query.reverseDiff # {}
  /\ LET RECURSIVE Revert(_, _)
         Revert(fsv, paths) ==
           IF paths = {} THEN fsv
           ELSE LET p == CHOOSE q \in paths : TRUE
                IN Revert(applyReversePatch(fsv, p, query.reverseDiff[p]).fs, paths \ {p})
     IN fs' = Revert(fs, DOMAIN query.reverseDiff)
  /\ pc' = "restored"
  /\ UNCHANGED <<platform, pre, call, undo, parentDir, allowedDirectories, fileContext,
                 fileContents, toolCallMessages, userTextMessages, vp, tool, maxToolUseRounds,
                 query,
                 inflight>>

SpecQuery ==
  InitQuery /\ [][ProcessQuery \/ SendPrompt \/ HandleToolCall \/ Return \/ RevertQuery]_vars

\* ------------------------------------------------------------------------
\* Claims
\* ------------------------------------------------------------------------
\* The last applyFileEdits call returned normally and reached the write
Succeeded == ~call.res.threw /\ call.res.response.kind # "error"

\* C1: for every original content O of the file and every successful
\* applyFileEdits call that returns reverseDiff, applyReversePatch with that
\* reverseDiff succeeds and leaves the file holding exactly O.
C1_RoundTrip ==
  (pc = "reverted" /\ Succeeded /\ FileThere(pre))
    => (undo.res.success /\ FileThere(fs) /\ FileData(fs) = FileData(pre))


\* --- helpers of the claims about the edit loop ---
TheEdits == call.edits.list
OriginalText == normalizeLineEndings(FileData(pre))
EditCall == pc = "applied" /\ call.edits.present /\ ~call.res.threw

\* The anchor can be located in the text c: verbatim, or line by line up to the
\* leading and trailing whitespace of the lines
Locatable(c, oldText) ==
  LET o == normalizeLineEndings(oldText)
      oldLines == Split(o, LF)
      contentLines == Split(c, LF)
  IN \/ Includes(c, o)
     \/ \E i \in 1..(Len(contentLines) - Len(oldLines) + 1) :
          \A j \in 1..Len(oldLines) : Trim(oldLines[j]) = Trim(contentLines[i + j - 1])

RECURSIVE StepThrough(_, _)
\* e1 applied to c, then e2 applied to that result, and so on
StepThrough(c, es) ==
  IF es = <<>> THEN c ELSE StepThrough(ApplyEdit(c, Head(es)).content, Tail(es))

\* The index of the first edit whose anchor cannot be located when its turn
\* comes, 0 when every edit can
FirstUnmatched(c, es) ==
  LET ks == {k \in 1..Len(es) :
               ~Locatable(StepThrough(c, SubSeq(es, 1, k - 1)), es[k].oldText)}
  IN IF ks = {} THEN 0 ELSE CHOOSE k \in ks : \A j \in ks : k <= j

\* C5: if an edit of the list cannot be matched, applyFileEdits returns an error
\* response naming the unmatched anchor, with validEdits = false and empty rawDiff
\* and reverseDiff, and the file on disk is exactly as before the call, even when
\* earlier edits of the list did match.
C5_UnmatchedEditLeavesFile ==
  (EditCall /\ FirstUnmatched(OriginalText, TheEdits) # 0)
    => /\ call.res.response.kind = "error"
       /\ call.res.response.text = TheEdits[FirstUnmatched(OriginalText, TheEdits)].oldText
       /\ call.res.validEdits = FALSE
       /\ call.res.rawDiff = EmptyText
       /\ call.res.reverseDiff = EmptyText
       /\ fs = pre

\* C5 witness: the second edit of a list failed after the first one had matched
\* and changed the working content
C5_Witness ==
  /\ EditCall
  /\ Len(TheEdits) = 2
  /\ FirstUnmatched(OriginalText, TheEdits) = 2
  /\ StepThrough(OriginalText, SubSeq(TheEdits, 1, 1)) # OriginalText
  /\ call.res.response.kind = "error"

\* C6: the edits are applied in array order, each against the text the previous
\* one produced, and are never reordered: the written text is e1 applied to the
\* original, then e2 applied to that, and so on; a list whose first anchor cannot
\* be located in the original fails even if a later edit would create the anchor.
C6_ArrayOrder ==
  EditCall =>
    /\ (call.res.response.kind # "error") =>
          /\ FirstUnmatched(OriginalText, TheEdits) = 0
          /\ FileData(fs) =
               applyPlatformLineEndings(StepThrough(OriginalText, TheEdits),
                                        detectLineEnding(FileData(pre), platform))
    /\ (TheEdits # <<>> /\ ~Locatable(OriginalText, TheEdits[1].oldText))
          => call.res.response.kind = "error"

\* C6 witness: a list of two edits failed on its first anchor although the same
\* two edits in the other order would both have been found
C6_Witness ==
  /\ EditCall
  /\ Len(TheEdits) = 2
  /\ call.res.response.kind = "error"
  /\ ~Locatable(OriginalText, TheEdits[1].oldText)
  /\ Locatable(OriginalText, TheEdits[2].oldText)
  /\ Locatable(ApplyEdit(OriginalText, TheEdits[2]).content, TheEdits[1].oldText)

\* C7: when the normalized oldText occurs verbatim, the result is the content with
\* the first occurrence of oldText removed and the normalized newText in its place
\* character for character, the text before and after it unchanged.
C7_ExactReplace ==
  (EditCall /\ Len(TheEdits) = 1
     /\ Includes(OriginalText, normalizeLineEndings(TheEdits[1].oldText)))
    => LET o == normalizeLineEndings(TheEdits[1].oldText)
           n == normalizeLineEndings(TheEdits[1].newText)
           i == IndexOf(OriginalText, o)
       IN /\ call.res.response.kind # "error"
          /\ call.res.modifiedContent =
               SubSeq(OriginalText, 1, i - 1) \o n
                 \o SubSeq(OriginalText, i + Len(o), Len(OriginalText))

\* C8: an edit whose oldText equals its newText, applied to a file in which the
\* anchor can be located, returns without error, with validEdits = false and a
\* rawDiff without changes, and leaves the text of the file unchanged.
C8_NoOpEdit ==
  (EditCall /\ Len(TheEdits) = 1 /\ TheEdits[1].oldText = TheEdits[1].newText
     /\ Locatable(OriginalText, TheEdits[1].oldText))
    => /\ call.res.response.kind # "error"
       /\ call.res.validEdits = FALSE
       /\ call.res.rawDiff.hunks = <<>>
       /\ FileData(fs) = FileData(pre)


\* --- claims about the result record and the written bytes ---
Applied == pc = "applied" /\ Succeeded

\* The file holds the same bytes before and after the last call (a missing file
\* counts as empty)
SameBytes == FileData(pre) = FileData(fs)

\* The bytes of a text whose line breaks are all written in its detected ending
Reencoded(data) == applyPlatformLineEndings(normalizeLineEndings(data),
                                            detectLineEnding(data, platform))

\* C9 as stated: after a successful call validEdits is true iff the content of the
\* file after the call differs from its content before the call; whenever
\* validEdits is false the bytes on disk are the same as before.
C9_ValidEditsIffBytesDiffer ==
  Applied => (call.res.validEdits <=> ~SameBytes)

\* C9 amended: validEdits is true iff the line-ending-normalized working text of
\* the call differs from the line-ending-normalized original text (a missing file
\* counts as empty); whenever validEdits is false the file is still written and
\* holds the original text with every line break in the detected line ending.
C9_ValidEditsIffTextDiffers ==
  Applied =>
    /\ call.res.validEdits <=> (call.res.modifiedContent # OriginalText)
    /\ ~call.res.validEdits => (FileThere(fs) /\ FileData(fs) = Reencoded(FileData(pre)))

\* C9 witness: a call that returned validEdits = false and changed the bytes of
\* an existing file
C9_Witness ==
  /\ Applied
  /\ ~call.res.validEdits
  /\ FileThere(pre)
  /\ FileData(fs) # FileData(pre)

\* A call with content set on a path where no file exists
CreateCall == pc = "applied" /\ call.content.present /\ ~FileThere(pre)

\* C10 as stated: content on a missing path creates the file holding exactly the
\* given content with newFileCreated = true and fileExists = false; on every call
\* that reaches the write newFileCreated = ~fileExists.
C10_CreatesExactContent ==
  /\ CreateCall =>
       /\ Succeeded
       /\ FileThere(fs) /\ FileData(fs) = call.content.text
       /\ call.res.newFileCreated /\ ~call.res.fileExists
  /\ Applied => (call.res.newFileCreated = ~call.res.fileExists)

\* C10 amended: the created file holds the given content with every line break
\* written in the native line ending of the platform (the content is normalized to
\* LF by applyFileEdits and once more by applyPlatformLineEndings before the native
\* ending is put in); the flags are as stated.
C10_CreatesContentInPlatformEnding ==
  /\ CreateCall =>
       /\ Succeeded
       /\ FileThere(fs)
       /\ FileData(fs) = applyPlatformLineEndings(normalizeLineEndings(call.content.text),
                                                  getPlatformLineEnding(platform))
       /\ call.res.newFileCreated /\ ~call.res.fileExists
  /\ Applied => (call.res.newFileCreated = ~call.res.fileExists)

\* C10 witness: a file created from content whose line break is not the native one
C10_Witness ==
  /\ CreateCall
  /\ Succeeded
  /\ call.res.newFileCreated
  /\ Includes(call.content.text, <<LF>>)
  /\ FileData(fs) # call.content.text

\* The resolved path comps is the directory dir or lies beneath it
Beneath(comps, dir) == Len(dir) <= Len(comps) /\ SubSeq(comps, 1, Len(dir)) = dir

\* The resolved form of the requested path of the last validatePath call is an
\* allowed directory or lies beneath one at a path-separator boundary
InsideAllowed(requestedPath) ==
  \E i \in 1..Len(allowedDirectories) :
    Beneath(PathResolve(Cwd, expandHome(parentDir), expandHome(requestedPath)),
            PathResolve(Cwd, <<>>, expandHome(allowedDirectories[i])))

\* C2: validatePath rejects with an access-denied error every requested path whose
\* resolved absolute form is neither an allowed directory itself nor located
\* beneath one at a path-separator boundary (with allowed directories [/a], the
\* path /ab/f is denied).
C2_SeparatorBoundary ==
  (pc = "validated" /\ ~InsideAllowed(vp.requestedPath)) => vp.res.status = "AccessDenied"

\* C3: for every base directory, validatePath(base, "../../etc/passwd", [base])
\* fails with an access-denied error, whatever symlinks exist on the filesystem.
\* The bases that hold /etc/passwd ("/", "/etc", "/etc/passwd") are left out here:
\* for them the target is inside the sandbox and the call rightly succeeds.
C3_TraversalDenied ==
  (/\ pc = "validated"
   /\ vp.requestedPath = TraversalRequest
   /\ allowedDirectories = <<parentDir>>
   /\ ~InsideAllowed(TraversalRequest))
    => vp.res.status = "AccessDenied"

\* The last handleToolUse call was an edit_file request whose arguments passed the schema
EditFileRequest == pc = "handled" /\ tool.toolName = "edit_file" /\ tool.toolArgs.valid

\* What validatePath answers for the path of the last request, on the filesystem
\* the request found
RequestValidation == validatePath(pre, parentDir, tool.toolArgs.path, allowedDirectories)

\* C4: when validatePath fails (access denied or parent missing) for an
\* edit_file request, the request ends with a failure result and no file is
\* created, written or modified by that request; a validatePath call leaves the
\* filesystem as it found it.
C4_ValidationFailureTouchesNothing ==
  /\ (EditFileRequest /\ RequestValidation.status # "ok")
       => (tool.res.finalStatus = "failure" /\ fs = pre)
  /\ pc = "validated" => fs = pre

\* C4 witness: a request to write an existing file outside the sandbox, with
\* content alone, was handled and its path was denied
C4_Witness ==
  /\ EditFileRequest
  /\ tool.toolArgs.path = PathStr(OutsideFile)
  /\ tool.toolArgs.content.present /\ ~tool.toolArgs.edits.present
  /\ RequestValidation.status = "AccessDenied"
  /\ tool.res.finalStatus = "failure"

\* --- claims about the whitespace-tolerant match ---
\* The whitespace at the end of a line
TrailingWs(s) == SubSeq(s, Len(TrimEnd(s)) + 1, Len(s))

\* The last call applied one edit to a one-line file whose anchor is one line that
\* does not occur verbatim and equals the line of the file up to leading and
\* trailing whitespace; the new text holds no whitespace and no replacement pattern
TolerantOneLineEdit ==
  /\ EditCall /\ Len(TheEdits) = 1
  /\ FileThere(pre)
  /\ ~Includes(OriginalText, <<LF>>)
  /\ ~Includes(TheEdits[1].oldText, <<LF>>)
  /\ ~Includes(OriginalText, TheEdits[1].oldText)
  /\ Trim(OriginalText) = Trim(TheEdits[1].oldText)
  /\ Trim(OriginalText) # <<>>
  /\ \A i \in 1..Len(TheEdits[1].newText) : TheEdits[1].newText[i] = "a"

\* C11: an edit whose anchor matches the file content only up to the leading and
\* trailing whitespace of its lines succeeds, and the leading and trailing
\* whitespace the original line carried outside the matched anchor text is still
\* present in the result.
C11_WhitespaceKept ==
  TolerantOneLineEdit
    => /\ call.res.response.kind # "error"
       /\ StartsWith(FileData(fs), LeadingWs(OriginalText))
       /\ EndsWith(FileData(fs), TrailingWs(OriginalText))

\* --- claims about validatePath on links and on missing paths ---
\* The resolved form of the path the last validatePath call was asked about
Requested == PathResolve(Cwd, expandHome(parentDir), expandHome(vp.requestedPath))

\* The last validatePath call was asked about a symbolic link that lies lexically
\* inside an allowed directory
LinkRequested ==
  /\ pc = "validated"
  /\ InsideAllowed(vp.requestedPath)
  /\ lstat(pre, Requested).ok /\ lstat(pre, Requested).isSymbolicLink

\* C12 as stated: for an existing symbolic link that lies lexically inside an
\* allowed directory, validatePath succeeds and returns the real target of the
\* link, without checking that the target is inside an allowed directory.
C12_LinkTargetReturned ==
  LinkRequested
    => (realpath(pre, Requested).ok /\ vp.res = Ok(realpath(pre, Requested).path))

\* C12 amended: a link whose target can be resolved is accepted with its real
\* target, wherever the target lies; a link whose target cannot be resolved is
\* handled as a path that does not exist: the link path itself is returned when
\* the parent check passes, else the call fails with the parent-missing error.
C12_ResolvableLinkTargetReturned ==
  LinkRequested
    => IF realpath(pre, Requested).ok
       THEN vp.res = Ok(realpath(pre, Requested).path)
       ELSE vp.res \in {Ok(Requested), ParentMissing}

\* C12 witness: a link inside the allowed directory was accepted with a target
\* outside every allowed directory
C12_Witness ==
  /\ LinkRequested
  /\ vp.res.status = "ok"
  /\ vp.res.path = OutsideFile
  /\ \A i \in 1..Len(allowedDirectories) :
       ~Beneath(vp.res.path, PathResolve(Cwd, <<>>, expandHome(allowedDirectories[i])))

\* The last validatePath call was asked about a path that lies lexically inside
\* an allowed directory and does not exist
MissingRequested ==
  /\ pc = "validated"
  /\ InsideAllowed(vp.requestedPath)
  /\ ~lstat(pre, Requested).ok

\* The real path of the parent directory of the requested path is an allowed
\* directory or lies beneath one
ParentInsideAllowed ==
  \E i \in 1..Len(allowedDirectories) :
    Beneath(realpath(pre, Dirname(Requested)).path,
            PathResolve(Cwd, <<>>, expandHome(allowedDirectories[i])))

\* C13: for a requested path that lies lexically inside an allowed directory but
\* does not exist, validatePath fails with the parent-missing error if and only if
\* the parent directory does not exist, fails with an access-denied error when
\* the parent exists but its real path is outside every allowed directory, and
\* otherwise returns the resolved absolute path.
C13_MissingPathParentCheck ==
  MissingRequested
    => /\ (vp.res.status = "ParentMissing") <=> ~realpath(pre, Dirname(Requested)).ok
       /\ (realpath(pre, Dirname(Requested)).ok /\ ~ParentInsideAllowed)
            => vp.res.status = "AccessDenied"
       /\ (realpath(pre, Dirname(Requested)).ok /\ ParentInsideAllowed)
            => vp.res = Ok(Requested)

\* --- helpers of the claims about applyReversePatch (SpecUndo) ---
\* The lines of the file before the call, with and without their carriage return
CurrentLines ==
  LET ls == Split(FileData(pre), LF)
  IN {ls[i] : i \in 1..Len(ls)} \cup {TrimEnd(ls[i]) : i \in 1..Len(ls)}

\* The reverse diff expects a line that the file does not hold anywhere
ForeignLine ==
  /\ undo.patch.hunks # <<>>
  /\ \E i \in 1..Len(OldSide(undo.patch.hunks[1])) :
        OldSide(undo.patch.hunks[1])[i] \notin CurrentLines

\* The file cannot be read, or the patch does not apply to what it holds
CannotRevert ==
  \/ ~FileThere(pre)
  \/ ForeignLine
  \/ ~applyPatch(FileData(pre), undo.patch).ok

\* C14: applyReversePatch never throws: when the file cannot be read, or the patch
\* does not apply cleanly to the current content of the file, it returns
\* success = false with an error message and the file on disk is left unchanged.
C14_FailedRevertLeavesFile ==
  pc = "reverted" =>
    /\ undo.res.success \in BOOLEAN
    /\ CannotRevert => (~undo.res.success /\ undo.res.error # "" /\ fs = pre)

\* C14 witness: the file holds a line the reverse diff does not expect, the call
\* reports the failure and the file is as it was
C14_Witness ==
  /\ pc = "reverted"
  /\ FileThere(pre)
  /\ ForeignLine
  /\ ~undo.res.success
  /\ undo.res.error = "Failed to apply reverse patch"
  /\ fs = pre

\* C15: applyReversePatch returns success = false with an invalid-format error, and
\* does not write the file, whenever the patch text parses to zero hunks (for
\* example empty text).
C15_ZeroHunksRejected ==
  (pc = "reverted" /\ undo.patch.hunks = <<>>)
    => (~undo.res.success /\ undo.res.error = "Invalid reverse diff format" /\ fs = pre)

\* --- helpers of the claim about the line endings of the written file ---
\* Every line break of the text t is the line ending le
BreaksAre(t, le) ==
  IF le = <<CR, LF>>
  THEN \A i \in 1..Len(t) : t[i] = LF => (i > 1 /\ t[i - 1] = CR)
  ELSE ~Includes(t, <<CR, LF>>)

\* C16: after any successful applyFileEdits call on an existing file, every line
\* break in the written file uses the line ending that was detected in the file
\* before the call, whatever line endings content, oldText or newText use; a newly
\* created file uses the native line ending of the platform.
C16_LineEndingKept ==
  (pc = "applied" /\ Succeeded) =>
    /\ FileThere(fs)
    /\ BreaksAre(FileData(fs),
                 IF FileThere(pre) THEN detectLineEnding(FileData(pre), platform)
                 ELSE getPlatformLineEnding(platform))

\* --- claim about the content / edits alternative of an edit_file request ---
\* The last edit_file request carried both content and edits, or neither
BothOrNeither == tool.toolArgs.content.present <=> tool.toolArgs.edits.present

\* C17: an edit_file request is processed only if exactly one of content and
\* edits is present: a request with both, or with neither, is rejected with a
\* failure result before validatePath or applyFileEdits is called (its result is
\* the message of the rejection, whatever its path is), and no file is touched.
C17_ExactlyOnePayload ==
  (EditFileRequest /\ BothOrNeither) =>
    /\ tool.res.finalStatus = "failure"
    /\ tool.res.finalText = IF tool.toolArgs.content.present
                            THEN "Cannot provide both content and edits"
                            ELSE "Either content or edits must be provided"
    /\ tool.res.toolResults = <<>>
    /\ ~tool.res.rawDiff.defined /\ ~tool.res.reverseDiff.defined
    /\ fs = pre
    /\ fileContents = <<>>
    /\ toolCallMessages = <<>> /\ userTextMessages = <<>>

\* C17 witness: a request with content and edits for the file of the sandbox,
\* which validatePath accepts and whose anchor is in the file, was rejected
C17_Witness ==
  /\ EditFileRequest
  /\ tool.toolArgs.content.present /\ tool.toolArgs.edits.present
  /\ tool.toolArgs.path = TheFilePath
  /\ RequestValidation.status = "ok"
  /\ FileThere(pre)
  /\ tool.res.finalStatus = "failure"
  /\ fs = pre

\* --- claims about processQuery (SpecQuery) ---
\* A step of the loop ends processQuery or brings it nearer to its end: it uses up
\* a round, or a tool call of the round
LoopProgress ==
  pc \in {"loop", "tools"} =>
    \/ pc' \in {"returned", "threw"}
    \/ query'.toolCallRounds > query.toolCallRounds
    \/ /\ query'.toolCallRounds = query.toolCallRounds
       /\ Len(query'.pending) < Len(query.pending)

\* C18: processQuery always leaves its tool-use loop: whatever the model answers,
\* it makes at most maxToolUseRounds model calls, and on return
\* 0 <= toolCallRounds <= maxToolUseRounds (for maxToolUseRounds >= 0).
C18_LoopBounded ==
  /\ [](maxToolUseRounds >= 0 =>
         /\ query.modelCalls <= maxToolUseRounds
         /\ 0 <= query.toolCallRounds /\ query.toolCallRounds <= maxToolUseRounds)
  /\ [][LoopProgress]_vars

\* C18 witness: the model answered every call with tool calls, the rounds are used
\* up and processQuery returned
C18_Witness ==
  /\ pc = "returned"
  /\ maxToolUseRounds = MaxRounds
  /\ query.modelCalls = maxToolUseRounds
  /\ query.toolCallRounds = maxToolUseRounds
  /\ query.toolCallCount > query.toolCallRounds
  /\ query.finalStatus = "retry_limit_reached"

\* The last tool call failed: its path was denied, or its edit was not found
CallFailed ==
  \/ tool.res.finalStatus = "failure"
  \/ tool.res.toolResults # <<>> /\ tool.res.toolResults[1].kind = "error"

\* C19: files are processed independently with no rollback: when one tool call of
\* a query fails (denied path, unmatched edit), the files written by earlier
\* successful tool calls of the same query stay modified, their entries stay in
\* rawDiff and reverseDiff, and the later tool calls are still processed.
C19_NoRollback ==
  [][(pc = "tools" /\ pc' # "threw" /\ CallFailed')
       => /\ fs' = fs
          /\ query'.rawDiff = query.rawDiff
          /\ query'.reverseDiff = query.reverseDiff
          /\ query'.toolCallCount = query.toolCallCount + 1
          /\ query'.pending = Tail(query.pending)
          /\ pc' = IF query'.pending = <<>> THEN "loop" ELSE "tools"]_vars

\* C19 witness: the first call wrote the file of the sandbox, the second failed,
\* the third created the new file; the file is still as the first call wrote it and
\* both have their entries
C19_Witness ==
  /\ pc = "loop"
  /\ query.toolCallCount = 3
  /\ query.finalResponseMessages =
       <<"Tool edit_file returned", "Error applying edits", "Tool edit_file returned">>
  /\ FileThere(fs) /\ FileData(fs) = <<"b">>
  /\ Node(fs, SandboxDir \o <<Name.n>>).kind = "file"
  /\ TheFilePath \in DOMAIN query.rawDiff
  /\ TheFilePath \in DOMAIN query.reverseDiff
  /\ PathStr(SandboxDir \o <<Name.n>>) \in DOMAIN query.rawDiff

\* --- claim about detectLineEnding ---
\* The line ending of the first line break of the text, the one of the platform
\* when the text has no line break
FirstLineEnding(text, os) ==
  IF ~Includes(text, <<LF>>) THEN getPlatformLineEnding(os)
  ELSE LET i == IndexOf(text, <<LF>>)
       IN IF i > 1 /\ text[i - 1] = CR THEN <<CR, LF>> ELSE <<LF>>

\* C20: detectLineEnding decides by the first line break that occurs in the text:
\* it returns CRLF if the first line break is \r\n, LF if the first line break is a
\* bare \n, and the native line ending of the platform if the text contains no line
\* break (here for the text applyFileEdits read from the file).
C20_FirstLineBreakDecides ==
  (pc = "applied" /\ FileThere(pre))
    => detectLineEnding(FileData(pre), platform) = FirstLineEnding(FileData(pre), platform)

\* --- claims about the windows of the whitespace-tolerant match (SpecOne) ---
\* The last call applied one edit whose anchor does not occur verbatim in the file
TolerantEdit ==
  /\ EditCall /\ Len(TheEdits) = 1
  /\ FileThere(pre)
  /\ ~Includes(OriginalText, normalizeLineEndings(TheEdits[1].oldText))

AnchorLines == Split(normalizeLineEndings(TheEdits[1].oldText), LF)
ReplacementLines == Split(normalizeLineEndings(TheEdits[1].newText), LF)
OriginalLines == Split(OriginalText, LF)
ResultLines == Split(call.res.modifiedContent, LF)

\* The windows of the original lines whose lines equal the anchor lines after trimming
Windows ==
  {i \in 1..(Len(OriginalLines) - Len(AnchorLines) + 1) :
     \A j \in 1..Len(AnchorLines) : Trim(AnchorLines[j]) = Trim(OriginalLines[i + j - 1])}
FirstWindow == CHOOSE i \in Windows : \A v \in Windows : i <= v

\* C21: whitespace-tolerant matching is tried only when oldText does not occur
\* verbatim; it then applies the edit to the first window of consecutive content
\* lines, with as many lines as oldText, in which every line equals the
\* corresponding oldText line after trimming.  Exactly the lines of that window are
\* replaced, every line outside the window is unchanged, and if no window matches
\* the edit fails.
C21_FirstWindowReplaced ==
  TolerantEdit =>
    IF Windows = {}
    THEN call.res.response.kind = "error" /\ fs = pre
    ELSE /\ call.res.response.kind # "error"
         /\ Len(ResultLines) = Len(OriginalLines) - Len(AnchorLines) + Len(ReplacementLines)
         /\ SubSeq(ResultLines, 1, FirstWindow - 1) = SubSeq(OriginalLines, 1, FirstWindow - 1)
         /\ SubSeq(ResultLines, FirstWindow + Len(ReplacementLines), Len(ResultLines))
              = SubSeq(OriginalLines, FirstWindow + Len(AnchorLines), Len(OriginalLines))

\* C21 witness: two windows match, the edit is applied and the last line of the
\* file, which is the second window, is as it was
C21_Witness ==
  /\ TolerantEdit
  /\ Cardinality(Windows) = 2
  /\ call.res.response.kind # "error"
  /\ call.res.modifiedContent # OriginalText
  /\ ResultLines[Len(ResultLines)] = OriginalLines[Len(OriginalLines)]

\* The number of whitespace characters oldText line j begins with (none when
\* oldText has no line j)
AnchorIndent(j) == IF j <= Len(AnchorLines) THEN Len(LeadingWs(AnchorLines[j])) ELSE 0

\* C22: in a whitespace-tolerant match, the first replacement line is the
\* indentation of the first line of the matched window followed by the first
\* newText line without its leading whitespace; every later newText line j is that
\* same indentation, plus max(0, indent(newText line j) - indent(oldText line j))
\* spaces, plus the line without its leading whitespace: none is copied verbatim.
C22_IndentRelativeToAnchor ==
  (TolerantEdit /\ Windows # {}) =>
    \A j \in 1..Len(ReplacementLines) :
      ResultLines[FirstWindow + j - 1] =
        LeadingWs(OriginalLines[FirstWindow])
          \o (IF j = 1 THEN <<>>
              ELSE Spaces(Max(0, Len(LeadingWs(ReplacementLines[j])) - AnchorIndent(j))))
          \o TrimStart(ReplacementLines[j])

\* C23: an edit with empty oldText and non-empty newText applied to an existing
\* empty file succeeds and makes the file content exactly newText, with
\* validEdits = true, fileExists = true and newFileCreated = false.
C23_PopulateEmptyFile ==
  (/\ EditCall /\ Len(TheEdits) = 1
   /\ FileThere(pre) /\ FileData(pre) = <<>>
   /\ TheEdits[1].oldText = <<>> /\ TheEdits[1].newText # <<>>)
    => /\ call.res.response.kind # "error"
       /\ FileThere(fs) /\ FileData(fs) = TheEdits[1].newText
       /\ call.res.validEdits /\ call.res.fileExists /\ ~call.res.newFileCreated

\* --- claims about the status processQuery returns (SpecQuery) ---
\* C27 as stated: processQuery returns 'retry_limit_reached' iff toolCallRounds
\* equals maxToolUseRounds when the loop ends; when the limit is not reached it
\* returns 'no_tool_calls' iff no tool call was handled.  With
\* maxToolUseRounds = 0 no model call is made and the status is
\* 'retry_limit_reached'.
C27_LimitStatusIffEqual ==
  pc = "returned" =>
    /\ (query.finalStatus = "retry_limit_reached")
         <=> (query.toolCallRounds = maxToolUseRounds)
    /\ query.toolCallRounds # maxToolUseRounds =>
         ((query.finalStatus = "no_tool_calls") <=> (query.toolCallCount = 0))
    /\ maxToolUseRounds = 0 =>
         (query.modelCalls = 0 /\ query.finalStatus = "retry_limit_reached")

\* C27 amended: the status is 'retry_limit_reached' iff toolCallRounds >=
\* maxToolUseRounds when the loop ends (which is equality for maxToolUseRounds >= 0
\* and always the case for a negative maxToolUseRounds); otherwise it is
\* 'no_tool_calls' iff no tool call was handled.  With maxToolUseRounds <= 0 no
\* model call is made and the status is 'retry_limit_reached'.
C27_LimitStatusIffReached ==
  pc = "returned" =>
    /\ (query.finalStatus = "retry_limit_reached")
         <=> (query.toolCallRounds >= maxToolUseRounds)
    /\ maxToolUseRounds >= 0 =>
         ((query.finalStatus = "retry_limit_reached")
            <=> (query.toolCallRounds = maxToolUseRounds))
    /\ query.toolCallRounds < maxToolUseRounds =>
         ((query.finalStatus = "no_tool_calls") <=> (query.toolCallCount = 0))
    /\ maxToolUseRounds <= 0 =>
         (query.modelCalls = 0 /\ query.finalStatus = "retry_limit_reached")

\* C27 witness: the rounds were used up by tool calls that succeeded, and the
\* status is 'retry_limit_reached' all the same
C27_Witness ==
  /\ pc = "returned"
  /\ maxToolUseRounds > 0
  /\ query.toolCallRounds = maxToolUseRounds
  /\ query.toolCallCount > 0
  /\ tool.res.finalStatus = "success"
  /\ query.finalStatus = "retry_limit_reached"

\* C28: processQuery returns finalStatus 'success' only if every tool call handled
\* during the query was applied without error: no rejected arguments, no denied
\* path, no unknown tool and no unmatched edit anchor in any tool call of any round.
C28_SuccessMeansAllApplied ==
  (pc = "returned" /\ query.finalStatus = "success") =>
    /\ \A i \in 1..Len(query.finalResponseMessages) :
          query.finalResponseMessages[i] \in {"content", "Tool edit_file returned"}
    /\ \A i \in 1..Len(query.toolResults) : query.toolResults[i].kind # "error"

\* --- claim about targets reached through a linked directory (SpecPath) ---
\* The real location of the path the last validatePath call returned is inside an
\* allowed directory
RealInsideAllowed ==
  /\ realpath(pre, vp.res.path).ok
  /\ \E i \in 1..Len(allowedDirectories) :
        Beneath(realpath(pre, vp.res.path).path,
                PathResolve(Cwd, <<>>, expandHome(allowedDirectories[i])))

\* C30: whenever validatePath returns a path for an existing target that is not
\* itself a symbolic link, the real location of that target (after resolving
\* symlinks in its parent directories) is inside an allowed directory; a file
\* reached through a symlinked directory that leads outside the sandbox is not
\* accepted.
C30_RealTargetInsideAllowed ==
  (/\ pc = "validated" /\ vp.res.status = "ok"
   /\ lstat(pre, Requested).ok /\ ~lstat(pre, Requested).isSymbolicLink)
    => RealInsideAllowed

\* C29: after processQuery returns, applying reverseDiff[p] with applyReversePatch
\* to every path p in the returned reverseDiff map restores each of those files
\* to the content it had before the query, for any sequence of tool calls,
\* including queries in which the same file is edited by more than one tool call
\* (here for the files that were there before the query).
C29_RevertRestoresQuery ==
  pc = "restored" =>
    \A p \in DOMAIN query.reverseDiff :
      readFile(pre, PathResolve(Cwd, <<>>, p)).ok =>
        readFile(fs, PathResolve(Cwd, <<>>, p)) = readFile(pre, PathResolve(Cwd, <<>>, p))

\* The diff a caller's call returned holds a run of k consecutive backticks
HasRun(i, k) ==
  \E h \in 1..Len(inflight[i].res.rawDiff.hunks) :
    LET lines == inflight[i].res.rawDiff.hunks[h].lines
    IN \E l \in 1..Len(lines) :
         \E at \in 1..(Len(lines[l].text) - k + 1) :
           \A j \in at..(at + k - 1) : lines[l].text[j] = BACKQUOTE

\* The call of caller i returned "Successfully updated file ... with diff"
Updated(i) ==
  /\ inflight[i].stage = "done"
  /\ ~inflight[i].res.threw
  /\ inflight[i].res.response.kind = "updated"

\* C24: the diff embedded in the response text of applyFileEdits is wrapped in a
\* backtick fence whose length is the smallest n >= 3 such that the diff text
\* contains no run of n consecutive backticks; the fence is therefore strictly
\* longer than the longest backtick run in the diff, and the search for n ends
\* (n is at most one more than the longest line of the files and contents here).
C24_SmallestFreeFence ==
  \A i \in Callers :
    Updated(i) =>
      LET n == inflight[i].res.response.numBackticks
      IN /\ n >= 3
         /\ ~HasRun(i, n)
         /\ \A m \in 3..(n - 1) : HasRun(i, m)
         /\ \A k \in 1..8 : HasRun(i, k) => k < n
         /\ n <= 6

\* C24 witness: a call wrote a line of four backticks, three would close the fence
\* early and so would four; the fence has five.
C24_Witness ==
  \E i \in Callers :
    /\ Updated(i)
    /\ HasRun(i, 4)
    /\ inflight[i].res.response.numBackticks = 5

\* Both calls returned, and each had read the file before either wrote
BothReadFirst ==
  \A i \in Callers : inflight[i].stage = "done" /\ inflight[i].early

\* What the call of caller i does when it runs alone on the file as it was
Alone(i) ==
  applyFileEdits(platform, pre, PathStr(SandboxDir), TheFilePath,
                 inflight[i].edits, inflight[i].content)

\* The call of caller i returned one of the "Successfully ..." / "No edits"
\* responses: it reached its write
ReturnedSuccess(i) ==
  ~inflight[i].res.threw /\ inflight[i].res.response.kind # "error"

\* C25: applyFileEdits has no synchronization on the file: if two calls on the
\* same path both read the file before either of them writes, each returns what
\* it returns when it runs alone (success, when its change applies to the file),
\* with no error for the overlap, and the final file is the one the call that
\* wrote last leaves when it runs alone: the changes of the other call are lost.
C25_LastWriteWins ==
  BothReadFirst =>
    /\ \A i \in Callers : inflight[i].res = Alone(i).res
    /\ \A i \in Callers :
         (inflight[i].order = Cardinality(Callers) /\ ReturnedSuccess(i)) => fs = Alone(i).fs

\* C25 witness: on the file "a`" one call replaces "a" by "b" and the other the
\* backtick by "c"; both read first, both return "Successfully updated", and the
\* file holds "ac": the "b" of the call that wrote first is gone.
C25_Witness ==
  /\ BothReadFirst
  /\ pre = FsWithFile(<<"a", BACKQUOTE>>)
  /\ \A i \in Callers : ReturnedSuccess(i) /\ inflight[i].res.response.kind = "updated"
  /\ \E i \in Callers : inflight[i].order = 1 /\ inflight[i].res.modifiedContent = <<"b", BACKQUOTE>>
  /\ FileData(fs) = <<"a", "c">>

\* The read of caller i failed though something is at the path
ReadFailedOnExisting(i) ==
  /\ Node(inflight[i].seen, TheFile).kind # "none"
  /\ ~readFile(inflight[i].seen, TheFile).ok

\* C26: an underlying read or write failure during applyFileEdits (a file that
\* exists but cannot be read, a path that cannot be written) is reported to the
\* caller as an error (a rejection or an error response), never as success: an
\* existing file that cannot be read is not handled as if it were missing.
C26_IoFailureIsError ==
  \A i \in Callers :
    (inflight[i].stage = "done" /\ ReadFailedOnExisting(i)) =>
      /\ inflight[i].res.threw \/ inflight[i].res.response.kind = "error"
      /\ ~inflight[i].res.newFileCreated

====
